---- MODULE Spec2Model ----
(***************************************************************************)
(* Model of the ECU coding-bit registry, the bitfield decoder, the         *)
(* administrative seed, the PID discovery accumulator and the manufacturer *)
(* classifier of the axly function app                                     *)
(* (services/module_service.py, services/pid_service.py, models/module.py, *)
(* models/pid.py, routes/modules.py).                                      *)
(*                                                                         *)
(* Python strings are modelled as sequences of one-character strings, so   *)
(* that slicing, case conversion, substring tests and hex parsing are      *)
(* computed and not assumed.                                               *)
(***************************************************************************)
EXTENDS Integers, Sequences, FiniteSets, Bags, TLC

VARIABLES
    moduleRows,     \* committed rows of table module_registry
    bitRows,        \* committed rows of table coding_bit_registry
    decodeReq,      \* arguments of the parse_coding_bytes call
    decodeRes,      \* <<>> while the call has not returned, else <<returned value>>
    pidProfiles,    \* rows of table pid_profiles
    discoveredPids, \* rows of table discovered_pids (a bag: rows differ in their id only)
    reports,        \* number of report_discovered_pids calls made so far
    reportRes,      \* <<>>, or <<value returned by the last report_discovered_pids call>>
    seedPc,         \* per seed request: the step it is at
    seedIdx,        \* per seed request: index into the seed list being walked
    seedFound,      \* per seed request: id of the row its existence check returned
    seedIns,        \* per seed request: rows inserted in its open transaction
    seedUpd,        \* per seed request: rows rewritten in its open transaction
    seedOutcome,    \* per seed request: "ok", or the exception that ended it
    seedStart,      \* per seed request: what the registry held when it began
    classifyReq,    \* argument of the get_manufacturer_group call
    classifyRes,    \* <<>> while the call has not returned, else <<returned group>>
    listReq,        \* arguments of the get_modules_for_manufacturer call
    listRes,        \* <<>>, or <<list returned by get_modules_for_manufacturer>>
    discoveredModules, \* rows of table discovered_modules, in the order of their insertion
    codingHistory,  \* rows of table coding_history, in the order of their insertion
    calls,          \* per client: the parse_coding_bytes call it made and what it got back
    discCall,       \* <<>>, or <<arguments and result of the last report_discovered_module>>
    histCall,       \* <<>>, or <<arguments and result of the last save_coding_history>>
    httpReq,        \* the request POST modules/parse-coding is called with
    httpRes,        \* <<>>, or <<response of parse_coding>>
    pidRegistry,    \* rows of table pid_registry
    recReq,         \* arguments of the get_recommended_pids call
    recRes,         \* <<>>, or <<value returned by get_recommended_pids>>
    racePc,         \* per worker: the step of report_discovered_pids it is at
    raceArgs,       \* per worker: the arguments of its report_discovered_pids call
    raceSeen,       \* per worker: <<>>, or <<the profile row its query returned>>
    raceRes         \* per worker: <<>>, or <<what its call returned or raised>>

registryVars == <<moduleRows, bitRows>>
decodeVars == <<decodeReq, decodeRes>>
pidVars == <<pidProfiles, discoveredPids, reports, reportRes>>
seedVars == <<seedPc, seedIdx, seedFound, seedIns, seedUpd, seedOutcome, seedStart>>
classifyVars == <<classifyReq, classifyRes>>
listVars == <<listReq, listRes>>
storeVars == <<discoveredModules, codingHistory>>
callVars == <<calls, discCall, histCall>>
httpVars == <<httpReq, httpRes>>
recVars == <<pidRegistry, recReq, recRes>>
raceVars == <<racePc, raceArgs, raceSeen, raceRes>>
serviceVars == <<listVars, storeVars, callVars, httpVars, recVars, raceVars>>
vars == <<registryVars, decodeVars, pidVars, seedVars, classifyVars, serviceVars>>

NULL == "None"

\* a nullable ARRAY(Text) column: SQL NULL, or the set of its elements
NullArray == [null |-> TRUE, items |-> {}]
Array(S) == [null |-> FALSE, items |-> S]

(***************************************************************************)
(* Bounds                                                                  *)
(***************************************************************************)
MaxHexLen == 4      \* longest rawBytes string handed to the decoder
MaxSeedModules == 2 \* entries of vag_modules a seed walks
MaxSeedBits == 2    \* entries of coding_bits a seed walks
MaxMakeParts == 2   \* fragments a make string is put together from
MaxDiscoveries == 2 \* report_discovered_module calls in one behaviour
MaxHistory == 2     \* save_coding_history calls in one behaviour
MaxReports == 2     \* number of report_discovered_pids calls in one behaviour
MaxPidsPerReport == 2   \* len(working_pids) + len(failed_pids) of one report
MaxSamples == 11    \* reports made for one VIN prefix in the long run

(***************************************************************************)
(* Character helpers (str.upper, bytes.fromhex)                            *)
(***************************************************************************)
HexDigits == {"0","1","2","3","4","5","6","7","8","9",
              "A","B","C","D","E","F","a","b","c","d","e","f"}

\* Py_ISSPACE: the characters bytes.fromhex skips between octets
AsciiSpace == {" ", "\t", "\n", "\r", "\f"}

LowerLetters == <<"a","b","c","d","e","f","g","h","i","j","k","l","m","n","o","p","q","r","s","t","u","v","w","x","y","z">>
UpperLetters == <<"A","B","C","D","E","F","G","H","I","J","K","L","M","N","O","P","Q","R","S","T","U","V","W","X","Y","Z">>

\* str.upper / str.lower, character by character
UpperChar(c) ==
    IF \E i \in 1..26 : LowerLetters[i] = c
    THEN UpperLetters[CHOOSE i \in 1..26 : LowerLetters[i] = c]
    ELSE c

LowerChar(c) ==
    IF \E i \in 1..26 : UpperLetters[i] = c
    THEN LowerLetters[CHOOSE i \in 1..26 : UpperLetters[i] = c]
    ELSE c

Upper(s) == [i \in 1..Len(s) |-> UpperChar(s[i])]
Lower(s) == [i \in 1..Len(s) |-> LowerChar(s[i])]

\* the Python test "sub in s"
Contains(s, sub) ==
    \E i \in 0..(Len(s) - Len(sub)) : SubSeq(s, i + 1, i + Len(sub)) = sub

RemoveSpaces(s) == SelectSeq(s, LAMBDA c : c # " ")

HexVal(c) ==
    CASE c = "0" -> 0 [] c = "1" -> 1 [] c = "2" -> 2 [] c = "3" -> 3
      [] c = "4" -> 4 [] c = "5" -> 5 [] c = "6" -> 6 [] c = "7" -> 7
      [] c = "8" -> 8 [] c = "9" -> 9
      [] c \in {"A","a"} -> 10 [] c \in {"B","b"} -> 11
      [] c \in {"C","c"} -> 12 [] c \in {"D","d"} -> 13
      [] c \in {"E","e"} -> 14 [] c \in {"F","f"} -> 15

HexError == [ok |-> FALSE, bytes |-> <<>>]

\* bug variant: a lone trailing digit is dropped instead of rejected
RECURSIVE fromhex_drop_odd(_)
fromhex_drop_odd(s) ==
    IF s = <<>> THEN [ok |-> TRUE, bytes |-> <<>>]
    ELSE IF Head(s) \in AsciiSpace THEN fromhex_drop_odd(Tail(s))
    ELSE IF Head(s) \notin HexDigits THEN HexError
    ELSE IF Len(s) < 2 THEN [ok |-> TRUE, bytes |-> <<>>]
    ELSE IF s[2] \notin HexDigits THEN HexError
    ELSE LET rest == fromhex_drop_odd(SubSeq(s, 3, Len(s)))
         IN  IF rest.ok
             THEN [ok |-> TRUE,
                   bytes |-> <<16 * HexVal(s[1]) + HexVal(s[2])>> \o rest.bytes]
             ELSE HexError

\* bytes.fromhex: whitespace is skipped in front of an octet only; an octet is
\* two adjacent hex digits; anything else raises ValueError (ok = FALSE).
RECURSIVE fromhex(_)
fromhex(s) ==
    IF s = <<>> THEN [ok |-> TRUE, bytes |-> <<>>]
    ELSE IF Head(s) \in AsciiSpace THEN fromhex(Tail(s))
    ELSE IF Head(s) \notin HexDigits THEN HexError
    ELSE IF Len(s) < 2 THEN HexError
    ELSE IF s[2] \notin HexDigits THEN HexError
    ELSE LET rest == fromhex(SubSeq(s, 3, Len(s)))
         IN  IF rest.ok
             THEN [ok |-> TRUE,
                   bytes |-> <<16 * HexVal(s[1]) + HexVal(s[2])>> \o rest.bytes]
             ELSE HexError

\* (b >> n) & 1 for a byte b and n >= 0
RECURSIVE Pow2(_)
Pow2(n) == IF n = 0 THEN 1 ELSE 2 * Pow2(n - 1)

\* bug variant: bits numbered from the most significant end
BitOf_msb(b, n) == (b \div Pow2(7 - n)) % 2

BitOf(b, n) == (b \div Pow2(n)) % 2

(***************************************************************************)
(* Registry reads                                                          *)
(***************************************************************************)
\* bug variant: ORDER BY bit_index, byte_index
BitBefore_bit_first(a, b) ==
    \/ a.bit_index < b.bit_index
    \/ a.bit_index = b.bit_index /\ a.byte_index < b.byte_index

\* ORDER BY byte_index, bit_index
BitBefore(a, b) ==
    \/ a.byte_index < b.byte_index
    \/ a.byte_index = b.byte_index /\ a.bit_index < b.bit_index

RECURSIVE OrderBits(_)
OrderBits(S) ==
    IF S = {} THEN <<>>
    ELSE LET first == CHOOSE a \in S : \A b \in S \ {a} : ~BitBefore(b, a)
         IN  <<first>> \o OrderBits(S \ {first})

\* the dictionary built for one CodingBitRegistry row
BitDict(b) ==
    [byteIndex   |-> b.byte_index,
     bitIndex    |-> b.bit_index,
     name        |-> b.name,
     description |-> b.description,
     category    |-> b.category,
     safetyLevel |-> b.safety_level,
     platforms   |-> b.platforms.items]

PlatformMatches(b, platform) ==
    \/ platform = NULL
    \/ platform = ""
    \/ b.platforms.null
    \/ platform \in b.platforms.items

get_coding_bits_for_module(manufacturer, module_address, platform) ==
    LET selected == {b \in bitRows :
                        /\ b.manufacturer = manufacturer
                        /\ b.module_address = module_address
                        /\ PlatformMatches(b, platform)}
        results  == OrderBits(selected)
        modules  == {m \in moduleRows :
                        /\ m.manufacturer = manufacturer
                        /\ m.address = module_address}
        bits     == [i \in 1..Len(results) |-> BitDict(results[i])]
    IN  [moduleAddress |-> module_address,
         moduleName    |-> IF modules # {}
                           THEN <<(CHOOSE m \in modules : TRUE).name>>
                           ELSE <<"Module ", module_address>>,
         bits          |-> bits,
         totalBits     |-> Len(bits)]

(***************************************************************************)
(* The bitfield decoder                                                    *)
(***************************************************************************)
\* raw_bytes.replace(" ", "").upper()
normalize_raw(raw_bytes) == Upper(RemoveSpaces(raw_bytes))

IndexError == -1

\* byte_values[idx] of Python: negative indexes count from the end, an index
\* outside -len .. len-1 raises IndexError
ByteAt(byte_values, idx) ==
    IF idx >= 0 /\ idx < Len(byte_values) THEN byte_values[idx + 1]
    ELSE IF idx < 0 /\ idx >= -Len(byte_values)
         THEN byte_values[Len(byte_values) + idx + 1]
    ELSE IndexError

\* bug variant: off-by-one guard
in_range_le(byte_idx, length) == byte_idx <= length

\* the guard "byte_idx < len(byte_values)"
in_range(byte_idx, length) == byte_idx < length

\* evaluation of one definition: the value of its bit, or the exception the
\* evaluation raises (IndexError of the subscript, ValueError of a negative shift)
current_value(bit_def, byte_values) ==
    IF in_range(bit_def.byteIndex, Len(byte_values))
    THEN IF ByteAt(byte_values, bit_def.byteIndex) = IndexError
         THEN [value |-> FALSE, raised |-> "IndexError"]
         ELSE IF bit_def.bitIndex < 0
         THEN [value |-> FALSE, raised |-> "ValueError"]
         ELSE [value  |-> BitOf(ByteAt(byte_values, bit_def.byteIndex),
                                bit_def.bitIndex) = 1,
               raised |-> NULL]
    ELSE [value |-> FALSE, raised |-> NULL]

\* bug variant: bytes counted instead of bits
total_bits_bytes(byte_values) == Len(byte_values)

total_bits_of(byte_values) == Len(byte_values) * 8

unknown_bit_count_of(total_bits, known_bits) == total_bits - Len(known_bits)

\* the result returned from the "except ValueError" branch
hex_error_result(module_address, module_name, raw, bit_defs) ==
    [moduleAddress   |-> module_address,
     moduleName      |-> module_name,
     rawBytes        |-> raw,
     knownBits       |-> <<>>,
     unknownBitCount |-> 0,
     totalBits       |-> 0,
     error           |-> "Invalid hex format",
     exception       |-> NULL]

parse_coding_bytes(manufacturer, module_address, raw_bytes, platform) ==
    LET bit_data    == get_coding_bits_for_module(manufacturer, module_address, platform)
        bit_defs    == bit_data.bits
        raw         == normalize_raw(raw_bytes)
        parsed      == fromhex(raw)
        byte_values == parsed.bytes
        evals       == [i \in 1..Len(bit_defs) |-> current_value(bit_defs[i], byte_values)]
        known_bits  == [i \in 1..Len(bit_defs) |->
                            bit_defs[i] @@ [currentValue |-> evals[i].value]]
        raising     == {i \in 1..Len(bit_defs) : evals[i].raised # NULL}
        total_bits  == total_bits_of(byte_values)
    IN  IF ~parsed.ok
        THEN hex_error_result(module_address, bit_data.moduleName, raw, bit_defs)
        ELSE [moduleAddress   |-> module_address,
              moduleName      |-> bit_data.moduleName,
              rawBytes        |-> raw,
              knownBits       |-> known_bits,
              unknownBitCount |-> unknown_bit_count_of(total_bits, known_bits),
              totalBits       |-> total_bits,
              error           |-> NULL,
              exception       |-> IF raising = {} THEN NULL
                                  ELSE evals[CHOOSE i \in raising :
                                                \A j \in raising : i <= j].raised]

(***************************************************************************)
(* The administrative seed (seed_vag_modules, seed_vag_coding_bits)        *)
(***************************************************************************)
\* the list vag_modules of seed_vag_modules, in source order
VagModules == <<
    [address |-> "01", name |-> "Engine", long_name |-> "Engine Control Module (ECM)", can_id |-> "7E0",
     coding_supported |-> TRUE, priority |-> 1],
    [address |-> "02", name |-> "Transmission", long_name |-> "Transmission Control Module (TCM)", can_id |-> "7E1",
     coding_supported |-> TRUE, priority |-> 2],
    [address |-> "03", name |-> "ABS/ESP", long_name |-> "ABS Brakes / ESP", can_id |-> "7E2",
     coding_supported |-> TRUE, priority |-> 3],
    [address |-> "08", name |-> "HVAC", long_name |-> "Auto HVAC / Climatronic", can_id |-> "708",
     coding_supported |-> TRUE, priority |-> 10],
    [address |-> "09", name |-> "Central Electronics", long_name |-> "Central Electronics (BCM)", can_id |-> "710",
     coding_supported |-> TRUE, priority |-> 5],
    [address |-> "15", name |-> "Airbag", long_name |-> "Airbag Control Module", can_id |-> "715",
     coding_supported |-> TRUE, priority |-> 4],
    [address |-> "16", name |-> "Steering Column", long_name |-> "Steering Column Electronics", can_id |-> "716",
     coding_supported |-> TRUE, priority |-> 20],
    [address |-> "17", name |-> "Instrument Cluster", long_name |-> "Dashboard / Instrument Cluster", can_id |-> "714",
     coding_supported |-> TRUE, priority |-> 6],
    [address |-> "19", name |-> "CAN Gateway", long_name |-> "CAN Gateway", can_id |-> "716",
     coding_supported |-> FALSE, priority |-> 7],
    [address |-> "42", name |-> "Driver Door", long_name |-> "Driver Door Electronics", can_id |-> "72A",
     coding_supported |-> TRUE, priority |-> 30],
    [address |-> "44", name |-> "Steering Assist", long_name |-> "Power Steering", can_id |-> "72C",
     coding_supported |-> TRUE, priority |-> 25],
    [address |-> "46", name |-> "Central Comfort", long_name |-> "Central Comfort Module", can_id |-> "72E",
     coding_supported |-> TRUE, priority |-> 8],
    [address |-> "52", name |-> "Passenger Door", long_name |-> "Passenger Door Electronics", can_id |-> "734",
     coding_supported |-> TRUE, priority |-> 31],
    [address |-> "62", name |-> "Rear Left Door", long_name |-> "Rear Left Door Electronics", can_id |-> "73E",
     coding_supported |-> TRUE, priority |-> 32],
    [address |-> "72", name |-> "Rear Right Door", long_name |-> "Rear Right Door Electronics", can_id |-> "748",
     coding_supported |-> TRUE, priority |-> 33],
    [address |-> "55", name |-> "Headlights", long_name |-> "Headlight Range / Leveling", can_id |-> "737",
     coding_supported |-> TRUE, priority |-> 15],
    [address |-> "39", name |-> "Right Headlight", long_name |-> "Right Headlight", can_id |-> "727",
     coding_supported |-> TRUE, priority |-> 16],
    [address |-> "4F", name |-> "Central Electronics 2", long_name |-> "Central Electronics 2", can_id |-> "72F",
     coding_supported |-> TRUE, priority |-> 17],
    [address |-> "56", name |-> "Radio", long_name |-> "Radio Module", can_id |-> "738",
     coding_supported |-> TRUE, priority |-> 40],
    [address |-> "57", name |-> "TV Tuner", long_name |-> "Television Tuner", can_id |-> "739",
     coding_supported |-> TRUE, priority |-> 41],
    [address |-> "5F", name |-> "Infotainment", long_name |-> "Information Electronics (MMI)", can_id |-> "73F",
     coding_supported |-> TRUE, priority |-> 9],
    [address |-> "47", name |-> "Sound System", long_name |-> "Sound System Control Module", can_id |-> "72F",
     coding_supported |-> TRUE, priority |-> 42],
    [address |-> "37", name |-> "Navigation", long_name |-> "Navigation", can_id |-> "725",
     coding_supported |-> TRUE, priority |-> 43],
    [address |-> "13", name |-> "ACC", long_name |-> "Adaptive Cruise Control", can_id |-> "713",
     coding_supported |-> TRUE, priority |-> 50],
    [address |-> "A5", name |-> "Front Sensors", long_name |-> "Front Sensors (ACC)", can_id |-> "7A5",
     coding_supported |-> TRUE, priority |-> 51],
    [address |-> "76", name |-> "Parking Aid", long_name |-> "Park Distance Control", can_id |-> "74E",
     coding_supported |-> TRUE, priority |-> 52],
    [address |-> "6C", name |-> "Backup Camera", long_name |-> "Rear View Camera", can_id |-> "744",
     coding_supported |-> TRUE, priority |-> 53],
    [address |-> "05", name |-> "Kessy", long_name |-> "Access/Start Authorization", can_id |-> "705",
     coding_supported |-> TRUE, priority |-> 60],
    [address |-> "22", name |-> "AWD", long_name |-> "All-Wheel Drive", can_id |-> "71E",
     coding_supported |-> TRUE, priority |-> 61],
    [address |-> "25", name |-> "Immobilizer", long_name |-> "Immobilizer", can_id |-> "71F",
     coding_supported |-> TRUE, priority |-> 62],
    [address |-> "34", name |-> "Level Control", long_name |-> "Air Suspension", can_id |-> "722",
     coding_supported |-> TRUE, priority |-> 63],
    [address |-> "36", name |-> "Driver Seat", long_name |-> "Driver Seat Memory", can_id |-> "724",
     coding_supported |-> TRUE, priority |-> 64],
    [address |-> "38", name |-> "Roof Electronics", long_name |-> "Roof Electronics", can_id |-> "726",
     coding_supported |-> TRUE, priority |-> 65],
    [address |-> "65", name |-> "Tire Pressure", long_name |-> "TPMS", can_id |-> "741",
     coding_supported |-> TRUE, priority |-> 66],
    [address |-> "69", name |-> "Trailer", long_name |-> "Trailer Module", can_id |-> "745",
     coding_supported |-> TRUE, priority |-> 67],
    [address |-> "71", name |-> "Battery", long_name |-> "Battery Management", can_id |-> "747",
     coding_supported |-> TRUE, priority |-> 68],
    [address |-> "75", name |-> "Telematics", long_name |-> "Telematics", can_id |-> "74B",
     coding_supported |-> TRUE, priority |-> 69],
    [address |-> "77", name |-> "Telephone", long_name |-> "Telephone Module", can_id |-> "74F",
     coding_supported |-> TRUE, priority |-> 70]>>

\* the list coding_bits of seed_vag_coding_bits, in source order
VagCodingBits == <<
    [module |-> "17", byte |-> 0, bit |-> 0, name |-> "Needle Sweep",
     desc |-> "Gauge staging animation on startup", cat |-> "display", safety |-> "safe"],
    [module |-> "17", byte |-> 0, bit |-> 1, name |-> "Seatbelt Warning",
     desc |-> "Seatbelt reminder chime enabled", cat |-> "safety", safety |-> "caution"],
    [module |-> "17", byte |-> 0, bit |-> 2, name |-> "Seatbelt Chime Duration",
     desc |-> "Extended seatbelt warning duration", cat |-> "safety", safety |-> "caution"],
    [module |-> "17", byte |-> 0, bit |-> 3, name |-> "Speed Warning",
     desc |-> "Speed warning threshold enabled", cat |-> "display", safety |-> "safe"],
    [module |-> "17", byte |-> 0, bit |-> 4, name |-> "Speed Warning Gong",
     desc |-> "Audible speed warning", cat |-> "display", safety |-> "safe"],
    [module |-> "17", byte |-> 0, bit |-> 5, name |-> "Door Open Warning",
     desc |-> "Door ajar warning on cluster", cat |-> "safety", safety |-> "safe"],
    [module |-> "17", byte |-> 0, bit |-> 6, name |-> "Lights On Warning",
     desc |-> "Headlights on warning chime", cat |-> "display", safety |-> "safe"],
    [module |-> "17", byte |-> 0, bit |-> 7, name |-> "Key In Warning",
     desc |-> "Key in ignition warning", cat |-> "display", safety |-> "safe"],
    [module |-> "17", byte |-> 1, bit |-> 0, name |-> "Digital Speedometer",
     desc |-> "Show digital speed in cluster", cat |-> "display", safety |-> "safe"],
    [module |-> "17", byte |-> 1, bit |-> 1, name |-> "Oil Temperature",
     desc |-> "Show oil temp in display", cat |-> "display", safety |-> "safe"],
    [module |-> "17", byte |-> 1, bit |-> 2, name |-> "Coolant Temperature",
     desc |-> "Show coolant temp numerically", cat |-> "display", safety |-> "safe"],
    [module |-> "17", byte |-> 1, bit |-> 3, name |-> "Boost Pressure",
     desc |-> "Show turbo boost in display", cat |-> "display", safety |-> "safe"],
    [module |-> "17", byte |-> 1, bit |-> 4, name |-> "Lap Timer",
     desc |-> "Enable lap timer function", cat |-> "display", safety |-> "safe"],
    [module |-> "17", byte |-> 1, bit |-> 5, name |-> "G-Meter Display",
     desc |-> "Show G-force meter", cat |-> "display", safety |-> "safe"],
    [module |-> "17", byte |-> 1, bit |-> 6, name |-> "Efficiency Display",
     desc |-> "Show fuel efficiency info", cat |-> "display", safety |-> "safe"],
    [module |-> "17", byte |-> 1, bit |-> 7, name |-> "Sport Display",
     desc |-> "Show sport mode info", cat |-> "display", safety |-> "safe"],
    [module |-> "17", byte |-> 2, bit |-> 0, name |-> "Fuel Display Liters",
     desc |-> "Show fuel remaining in liters", cat |-> "display", safety |-> "safe"],
    [module |-> "17", byte |-> 2, bit |-> 1, name |-> "Fuel Display Gallons",
     desc |-> "Show fuel remaining in gallons", cat |-> "display", safety |-> "safe"],
    [module |-> "17", byte |-> 2, bit |-> 2, name |-> "Range Display",
     desc |-> "Show estimated range", cat |-> "display", safety |-> "safe"],
    [module |-> "17", byte |-> 2, bit |-> 3, name |-> "Low Fuel Warning",
     desc |-> "Low fuel distance warning", cat |-> "display", safety |-> "safe"],
    [module |-> "17", byte |-> 2, bit |-> 4, name |-> "Ambient Temperature",
     desc |-> "Show outside temp in cluster", cat |-> "display", safety |-> "safe"],
    [module |-> "17", byte |-> 2, bit |-> 5, name |-> "Ice Warning",
     desc |-> "Warning when temp below 4 deg C", cat |-> "safety", safety |-> "safe"],
    [module |-> "17", byte |-> 3, bit |-> 0, name |-> "Service Interval",
     desc |-> "Show service interval reminder", cat |-> "display", safety |-> "safe"],
    [module |-> "17", byte |-> 3, bit |-> 1, name |-> "Oil Change Reminder",
     desc |-> "Oil change service reminder", cat |-> "display", safety |-> "safe"],
    [module |-> "09", byte |-> 0, bit |-> 0, name |-> "Auto Lock Speed",
     desc |-> "Lock doors when driving over 15km/h", cat |-> "comfort", safety |-> "safe"],
    [module |-> "09", byte |-> 0, bit |-> 1, name |-> "Auto Unlock Park",
     desc |-> "Unlock doors when shifted to Park", cat |-> "comfort", safety |-> "safe"],
    [module |-> "09", byte |-> 0, bit |-> 2, name |-> "Auto Unlock Key Out",
     desc |-> "Unlock doors when key removed", cat |-> "comfort", safety |-> "safe"],
    [module |-> "09", byte |-> 0, bit |-> 3, name |-> "Selective Unlock",
     desc |-> "First press unlocks driver only", cat |-> "comfort", safety |-> "safe"],
    [module |-> "09", byte |-> 0, bit |-> 4, name |-> "Auto Relock",
     desc |-> "Relock if no door opened in 30s", cat |-> "comfort", safety |-> "safe"],
    [module |-> "09", byte |-> 0, bit |-> 5, name |-> "Double Lock",
     desc |-> "Enable double-lock function", cat |-> "safety", safety |-> "caution"],
    [module |-> "09", byte |-> 0, bit |-> 6, name |-> "Remote Start",
     desc |-> "Remote start capability", cat |-> "comfort", safety |-> "safe"],
    [module |-> "09", byte |-> 0, bit |-> 7, name |-> "Panic Alarm",
     desc |-> "Panic alarm from key fob", cat |-> "safety", safety |-> "safe"],
    [module |-> "09", byte |-> 1, bit |-> 0, name |-> "Coming Home Lights",
     desc |-> "Headlights stay on after exit", cat |-> "lighting", safety |-> "safe"],
    [module |-> "09", byte |-> 1, bit |-> 1, name |-> "Leaving Home Lights",
     desc |-> "Headlights on when unlocking", cat |-> "lighting", safety |-> "safe"],
    [module |-> "09", byte |-> 1, bit |-> 2, name |-> "Coming Home Duration",
     desc |-> "Extended coming home timer", cat |-> "lighting", safety |-> "safe"],
    [module |-> "09", byte |-> 1, bit |-> 3, name |-> "Pathway Lighting",
     desc |-> "Ground lights on unlock", cat |-> "lighting", safety |-> "safe"],
    [module |-> "09", byte |-> 1, bit |-> 4, name |-> "Interior Light Delay",
     desc |-> "Extended interior light delay", cat |-> "lighting", safety |-> "safe"],
    [module |-> "09", byte |-> 1, bit |-> 5, name |-> "Footwell Lighting",
     desc |-> "Ambient footwell lights", cat |-> "lighting", safety |-> "safe"],
    [module |-> "09", byte |-> 1, bit |-> 6, name |-> "Ambient Lighting",
     desc |-> "Interior ambient lighting", cat |-> "lighting", safety |-> "safe"],
    [module |-> "09", byte |-> 1, bit |-> 7, name |-> "Puddle Lights",
     desc |-> "Door handle puddle lights", cat |-> "lighting", safety |-> "safe"],
    [module |-> "09", byte |-> 2, bit |-> 0, name |-> "DRL Active",
     desc |-> "Daytime running lights enabled", cat |-> "lighting", safety |-> "safe"],
    [module |-> "09", byte |-> 2, bit |-> 1, name |-> "DRL Menu Option",
     desc |-> "DRL on/off option in settings", cat |-> "lighting", safety |-> "safe"],
    [module |-> "09", byte |-> 2, bit |-> 2, name |-> "DRL via LED",
     desc |-> "Use LED strips for DRL", cat |-> "lighting", safety |-> "safe"],
    [module |-> "09", byte |-> 2, bit |-> 3, name |-> "DRL with Low Beams",
     desc |-> "DRL using low beam headlights", cat |-> "lighting", safety |-> "safe"],
    [module |-> "09", byte |-> 2, bit |-> 4, name |-> "Cornering Lights",
     desc |-> "Fog lights aim into turns", cat |-> "lighting", safety |-> "safe"],
    [module |-> "09", byte |-> 2, bit |-> 5, name |-> "US Tail Lights",
     desc |-> "Amber turns with US pattern", cat |-> "lighting", safety |-> "safe"],
    [module |-> "09", byte |-> 2, bit |-> 6, name |-> "Euro Tail Lights",
     desc |-> "Red turns with Euro pattern", cat |-> "lighting", safety |-> "safe"],
    [module |-> "09", byte |-> 2, bit |-> 7, name |-> "Rear Fog as Brake",
     desc |-> "Use rear fog as extra brake light", cat |-> "lighting", safety |-> "caution"],
    [module |-> "09", byte |-> 3, bit |-> 0, name |-> "Beep on Lock",
     desc |-> "Chirp confirmation when locking", cat |-> "comfort", safety |-> "safe"],
    [module |-> "09", byte |-> 3, bit |-> 1, name |-> "Beep on Unlock",
     desc |-> "Chirp confirmation when unlocking", cat |-> "comfort", safety |-> "safe"],
    [module |-> "09", byte |-> 3, bit |-> 2, name |-> "Flash on Lock",
     desc |-> "Lights flash when locking", cat |-> "comfort", safety |-> "safe"],
    [module |-> "09", byte |-> 3, bit |-> 3, name |-> "Flash on Unlock",
     desc |-> "Lights flash when unlocking", cat |-> "comfort", safety |-> "safe"],
    [module |-> "09", byte |-> 3, bit |-> 4, name |-> "Interior Light Lock",
     desc |-> "Interior lights flash on lock", cat |-> "comfort", safety |-> "safe"],
    [module |-> "09", byte |-> 4, bit |-> 0, name |-> "Mirror Fold on Lock",
     desc |-> "Fold mirrors when locking", cat |-> "comfort", safety |-> "safe"],
    [module |-> "09", byte |-> 4, bit |-> 1, name |-> "Mirror Unfold Unlock",
     desc |-> "Unfold mirrors when unlocking", cat |-> "comfort", safety |-> "safe"],
    [module |-> "09", byte |-> 4, bit |-> 2, name |-> "Mirror Dip Reverse",
     desc |-> "Dip passenger mirror in reverse", cat |-> "comfort", safety |-> "safe"],
    [module |-> "09", byte |-> 4, bit |-> 3, name |-> "Mirror Memory",
     desc |-> "Mirror position memory", cat |-> "comfort", safety |-> "safe"],
    [module |-> "09", byte |-> 4, bit |-> 4, name |-> "Mirror Auto Dim",
     desc |-> "Auto-dimming mirrors", cat |-> "comfort", safety |-> "safe"],
    [module |-> "09", byte |-> 5, bit |-> 0, name |-> "One Touch Windows",
     desc |-> "One-touch up/down all windows", cat |-> "comfort", safety |-> "safe"],
    [module |-> "09", byte |-> 5, bit |-> 1, name |-> "Window Pinch Protect",
     desc |-> "Anti-pinch for all windows", cat |-> "safety", safety |-> "safe"],
    [module |-> "46", byte |-> 0, bit |-> 0, name |-> "Comfort Windows",
     desc |-> "Windows from key fob hold", cat |-> "comfort", safety |-> "safe"],
    [module |-> "46", byte |-> 0, bit |-> 1, name |-> "Comfort Sunroof",
     desc |-> "Sunroof from key fob hold", cat |-> "comfort", safety |-> "safe"],
    [module |-> "46", byte |-> 0, bit |-> 2, name |-> "Comfort Close All",
     desc |-> "Close all windows and sunroof", cat |-> "comfort", safety |-> "safe"],
    [module |-> "46", byte |-> 0, bit |-> 3, name |-> "Comfort Open All",
     desc |-> "Open all windows and sunroof", cat |-> "comfort", safety |-> "safe"],
    [module |-> "46", byte |-> 0, bit |-> 4, name |-> "Rain Close Windows",
     desc |-> "Close windows on rain sensor", cat |-> "comfort", safety |-> "safe"],
    [module |-> "46", byte |-> 0, bit |-> 5, name |-> "Rain Close Sunroof",
     desc |-> "Close sunroof on rain sensor", cat |-> "comfort", safety |-> "safe"],
    [module |-> "46", byte |-> 0, bit |-> 6, name |-> "Speed Close Windows",
     desc |-> "Auto close windows at speed", cat |-> "comfort", safety |-> "safe"],
    [module |-> "46", byte |-> 1, bit |-> 0, name |-> "Hold Time Short",
     desc |-> "Short key fob hold duration", cat |-> "comfort", safety |-> "safe"],
    [module |-> "46", byte |-> 1, bit |-> 1, name |-> "Hold Time Long",
     desc |-> "Long key fob hold duration", cat |-> "comfort", safety |-> "safe"],
    [module |-> "46", byte |-> 1, bit |-> 2, name |-> "Interior Monitor",
     desc |-> "Interior motion sensor active", cat |-> "safety", safety |-> "safe"],
    [module |-> "46", byte |-> 1, bit |-> 3, name |-> "Tilt Sensor",
     desc |-> "Tilt/tow alarm sensor", cat |-> "safety", safety |-> "safe"],
    [module |-> "46", byte |-> 2, bit |-> 0, name |-> "Trunk Release Hold",
     desc |-> "Hold to release trunk", cat |-> "comfort", safety |-> "safe"],
    [module |-> "46", byte |-> 2, bit |-> 1, name |-> "Easy Entry",
     desc |-> "Seat/wheel move for entry", cat |-> "comfort", safety |-> "safe"],
    [module |-> "46", byte |-> 2, bit |-> 2, name |-> "Memory Seat Link",
     desc |-> "Link seat to key memory", cat |-> "comfort", safety |-> "safe"],
    [module |-> "46", byte |-> 2, bit |-> 3, name |-> "Memory Mirror Link",
     desc |-> "Link mirrors to key memory", cat |-> "comfort", safety |-> "safe"],
    [module |-> "55", byte |-> 0, bit |-> 0, name |-> "DRL Active",
     desc |-> "Daytime running lights enabled", cat |-> "lighting", safety |-> "safe"],
    [module |-> "55", byte |-> 0, bit |-> 1, name |-> "DRL 100%",
     desc |-> "DRL at full brightness", cat |-> "lighting", safety |-> "safe"],
    [module |-> "55", byte |-> 0, bit |-> 2, name |-> "DRL 50%",
     desc |-> "DRL at half brightness", cat |-> "lighting", safety |-> "safe"],
    [module |-> "55", byte |-> 0, bit |-> 3, name |-> "DRL via Position",
     desc |-> "Use position lights for DRL", cat |-> "lighting", safety |-> "safe"],
    [module |-> "55", byte |-> 0, bit |-> 4, name |-> "DRL Turn Off",
     desc |-> "DRL off when headlights on", cat |-> "lighting", safety |-> "safe"],
    [module |-> "55", byte |-> 1, bit |-> 0, name |-> "Auto Leveling",
     desc |-> "Automatic headlight leveling", cat |-> "lighting", safety |-> "caution"],
    [module |-> "55", byte |-> 1, bit |-> 1, name |-> "Static Leveling",
     desc |-> "Static headlight level", cat |-> "lighting", safety |-> "caution"],
    [module |-> "55", byte |-> 1, bit |-> 2, name |-> "Dynamic Leveling",
     desc |-> "Dynamic headlight leveling", cat |-> "lighting", safety |-> "caution"],
    [module |-> "55", byte |-> 1, bit |-> 3, name |-> "Adaptive Light",
     desc |-> "Adaptive cornering headlights", cat |-> "lighting", safety |-> "safe"],
    [module |-> "55", byte |-> 1, bit |-> 4, name |-> "Travel Mode",
     desc |-> "Right-hand traffic mode", cat |-> "lighting", safety |-> "caution"],
    [module |-> "55", byte |-> 2, bit |-> 0, name |-> "Welcome Light",
     desc |-> "Headlights on unlock", cat |-> "lighting", safety |-> "safe"],
    [module |-> "55", byte |-> 2, bit |-> 1, name |-> "Xenon Installed",
     desc |-> "Xenon/LED headlights present", cat |-> "lighting", safety |-> "caution"],
    [module |-> "44", byte |-> 0, bit |-> 0, name |-> "Sport Steering",
     desc |-> "Sport steering weight feel", cat |-> "performance", safety |-> "safe"],
    [module |-> "44", byte |-> 0, bit |-> 1, name |-> "Comfort Steering",
     desc |-> "Comfort steering weight", cat |-> "performance", safety |-> "safe"],
    [module |-> "44", byte |-> 0, bit |-> 2, name |-> "Lane Assist",
     desc |-> "Lane keeping assist enabled", cat |-> "safety", safety |-> "caution"],
    [module |-> "44", byte |-> 0, bit |-> 3, name |-> "Lane Assist Vibration",
     desc |-> "Steering vibration on lane departure", cat |-> "safety", safety |-> "caution"],
    [module |-> "44", byte |-> 0, bit |-> 4, name |-> "Speed Dependent",
     desc |-> "Speed-dependent steering", cat |-> "performance", safety |-> "safe"],
    [module |-> "44", byte |-> 1, bit |-> 0, name |-> "Active Steering",
     desc |-> "Active steering system", cat |-> "performance", safety |-> "caution"],
    [module |-> "44", byte |-> 1, bit |-> 1, name |-> "Park Assist Steering",
     desc |-> "Parking assist control", cat |-> "comfort", safety |-> "safe"],
    [module |-> "44", byte |-> 1, bit |-> 2, name |-> "Dynamic Steering",
     desc |-> "Dynamic steering ratio", cat |-> "performance", safety |-> "caution"],
    [module |-> "5F", byte |-> 0, bit |-> 0, name |-> "Video in Motion",
     desc |-> "Allow video while driving", cat |-> "other", safety |-> "caution"],
    [module |-> "5F", byte |-> 0, bit |-> 1, name |-> "Nav in Motion",
     desc |-> "Allow nav input while driving", cat |-> "other", safety |-> "caution"],
    [module |-> "5F", byte |-> 0, bit |-> 2, name |-> "Phone in Motion",
     desc |-> "Allow phone input while driving", cat |-> "other", safety |-> "caution"],
    [module |-> "5F", byte |-> 0, bit |-> 3, name |-> "Bluetooth Audio",
     desc |-> "Bluetooth audio streaming", cat |-> "audio", safety |-> "safe"],
    [module |-> "5F", byte |-> 0, bit |-> 4, name |-> "USB Video",
     desc |-> "USB video playback", cat |-> "other", safety |-> "safe"],
    [module |-> "5F", byte |-> 0, bit |-> 5, name |-> "SD Card Support",
     desc |-> "SD card media support", cat |-> "audio", safety |-> "safe"],
    [module |-> "5F", byte |-> 1, bit |-> 0, name |-> "Speed Lock Features",
     desc |-> "Lock features at speed", cat |-> "safety", safety |-> "caution"],
    [module |-> "5F", byte |-> 1, bit |-> 1, name |-> "Voice Control",
     desc |-> "Voice control enabled", cat |-> "comfort", safety |-> "safe"],
    [module |-> "5F", byte |-> 1, bit |-> 2, name |-> "CarPlay Enable",
     desc |-> "Apple CarPlay support", cat |-> "other", safety |-> "safe"],
    [module |-> "5F", byte |-> 1, bit |-> 3, name |-> "Android Auto",
     desc |-> "Android Auto support", cat |-> "other", safety |-> "safe"],
    [module |-> "5F", byte |-> 1, bit |-> 4, name |-> "MirrorLink",
     desc |-> "MirrorLink support", cat |-> "other", safety |-> "safe"],
    [module |-> "5F", byte |-> 2, bit |-> 0, name |-> "Rear Camera Lines",
     desc |-> "Show guidelines on camera", cat |-> "display", safety |-> "safe"],
    [module |-> "5F", byte |-> 2, bit |-> 1, name |-> "Rear Camera Delay",
     desc |-> "Camera stays on longer", cat |-> "display", safety |-> "safe"],
    [module |-> "5F", byte |-> 2, bit |-> 2, name |-> "Top View Camera",
     desc |-> "Bird's eye view camera", cat |-> "display", safety |-> "safe"],
    [module |-> "5F", byte |-> 2, bit |-> 3, name |-> "Split Screen",
     desc |-> "Split screen view", cat |-> "display", safety |-> "safe"],
    [module |-> "08", byte |-> 0, bit |-> 0, name |-> "Auto AC",
     desc |-> "Automatic climate control", cat |-> "comfort", safety |-> "safe"],
    [module |-> "08", byte |-> 0, bit |-> 1, name |-> "Dual Zone",
     desc |-> "Dual zone climate control", cat |-> "comfort", safety |-> "safe"],
    [module |-> "08", byte |-> 0, bit |-> 2, name |-> "Rear Climate",
     desc |-> "Rear climate controls active", cat |-> "comfort", safety |-> "safe"],
    [module |-> "08", byte |-> 0, bit |-> 3, name |-> "Rest Heat",
     desc |-> "Residual heat function", cat |-> "comfort", safety |-> "safe"],
    [module |-> "08", byte |-> 0, bit |-> 4, name |-> "AC Memory",
     desc |-> "Remember AC settings", cat |-> "comfort", safety |-> "safe"],
    [module |-> "08", byte |-> 1, bit |-> 0, name |-> "Heated Seats Auto",
     desc |-> "Auto heated seats with climate", cat |-> "comfort", safety |-> "safe"],
    [module |-> "08", byte |-> 1, bit |-> 1, name |-> "Cooled Seats Auto",
     desc |-> "Auto ventilated seats", cat |-> "comfort", safety |-> "safe"],
    [module |-> "08", byte |-> 1, bit |-> 2, name |-> "Heated Wheel Auto",
     desc |-> "Auto heated steering wheel", cat |-> "comfort", safety |-> "safe"],
    [module |-> "08", byte |-> 1, bit |-> 3, name |-> "Aux Heater",
     desc |-> "Auxiliary heater enabled", cat |-> "comfort", safety |-> "safe"],
    [module |-> "08", byte |-> 1, bit |-> 4, name |-> "Defrost Priority",
     desc |-> "Defrost takes priority", cat |-> "comfort", safety |-> "safe"],
    [module |-> "03", byte |-> 0, bit |-> 0, name |-> "ESP Active",
     desc |-> "Electronic stability control on", cat |-> "safety", safety |-> "advanced"],
    [module |-> "03", byte |-> 0, bit |-> 1, name |-> "ESP Sport Mode",
     desc |-> "ESP sport mode available", cat |-> "performance", safety |-> "caution"],
    [module |-> "03", byte |-> 0, bit |-> 2, name |-> "ASR Active",
     desc |-> "Traction control active", cat |-> "safety", safety |-> "advanced"],
    [module |-> "03", byte |-> 0, bit |-> 3, name |-> "Hill Hold",
     desc |-> "Hill hold assist enabled", cat |-> "comfort", safety |-> "safe"],
    [module |-> "03", byte |-> 0, bit |-> 4, name |-> "Auto Hold",
     desc |-> "Auto brake hold at stops", cat |-> "comfort", safety |-> "safe"],
    [module |-> "03", byte |-> 1, bit |-> 0, name |-> "Brake Prefill",
     desc |-> "Brake prefill on lift-off", cat |-> "safety", safety |-> "safe"],
    [module |-> "03", byte |-> 1, bit |-> 1, name |-> "Brake Assist",
     desc |-> "Emergency brake assist", cat |-> "safety", safety |-> "caution"],
    [module |-> "03", byte |-> 1, bit |-> 2, name |-> "EBD Active",
     desc |-> "Electronic brake distribution", cat |-> "safety", safety |-> "advanced"],
    [module |-> "02", byte |-> 0, bit |-> 0, name |-> "Sport Mode",
     desc |-> "Sport shifting mode", cat |-> "performance", safety |-> "safe"],
    [module |-> "02", byte |-> 0, bit |-> 1, name |-> "Manual Mode",
     desc |-> "Manual/tiptronic mode", cat |-> "performance", safety |-> "safe"],
    [module |-> "02", byte |-> 0, bit |-> 2, name |-> "Launch Control",
     desc |-> "Launch control enabled", cat |-> "performance", safety |-> "caution"],
    [module |-> "02", byte |-> 0, bit |-> 3, name |-> "Shift Paddles",
     desc |-> "Paddle shifters active", cat |-> "performance", safety |-> "safe"],
    [module |-> "02", byte |-> 1, bit |-> 0, name |-> "Eco Mode",
     desc |-> "Economy shifting mode", cat |-> "performance", safety |-> "safe"],
    [module |-> "02", byte |-> 1, bit |-> 1, name |-> "Kickdown Active",
     desc |-> "Kickdown acceleration", cat |-> "performance", safety |-> "safe"],
    [module |-> "02", byte |-> 1, bit |-> 2, name |-> "Hill Mode",
     desc |-> "Hill descent mode", cat |-> "comfort", safety |-> "safe"],
    [module |-> "02", byte |-> 1, bit |-> 3, name |-> "Neutral at Stop",
     desc |-> "Shift to neutral at stop", cat |-> "performance", safety |-> "safe"],
    [module |-> "76", byte |-> 0, bit |-> 0, name |-> "Front Sensors",
     desc |-> "Front parking sensors active", cat |-> "safety", safety |-> "safe"],
    [module |-> "76", byte |-> 0, bit |-> 1, name |-> "Rear Sensors",
     desc |-> "Rear parking sensors active", cat |-> "safety", safety |-> "safe"],
    [module |-> "76", byte |-> 0, bit |-> 2, name |-> "Auto Enable Reverse",
     desc |-> "Auto enable in reverse", cat |-> "comfort", safety |-> "safe"],
    [module |-> "76", byte |-> 0, bit |-> 3, name |-> "Visual Display",
     desc |-> "Visual parking display", cat |-> "display", safety |-> "safe"],
    [module |-> "76", byte |-> 0, bit |-> 4, name |-> "Audio Warning",
     desc |-> "Audio parking warning", cat |-> "audio", safety |-> "safe"],
    [module |-> "76", byte |-> 0, bit |-> 5, name |-> "Front Auto Enable",
     desc |-> "Front sensors on slow speed", cat |-> "comfort", safety |-> "safe"],
    [module |-> "42", byte |-> 0, bit |-> 0, name |-> "One Touch Up",
     desc |-> "One touch window up", cat |-> "comfort", safety |-> "safe"],
    [module |-> "42", byte |-> 0, bit |-> 1, name |-> "One Touch Down",
     desc |-> "One touch window down", cat |-> "comfort", safety |-> "safe"],
    [module |-> "42", byte |-> 0, bit |-> 2, name |-> "Anti Pinch",
     desc |-> "Anti-pinch protection", cat |-> "safety", safety |-> "safe"],
    [module |-> "42", byte |-> 0, bit |-> 3, name |-> "Mirror Heat",
     desc |-> "Heated mirror installed", cat |-> "comfort", safety |-> "safe"],
    [module |-> "42", byte |-> 0, bit |-> 4, name |-> "Mirror Fold",
     desc |-> "Power folding mirror", cat |-> "comfort", safety |-> "safe"],
    [module |-> "42", byte |-> 0, bit |-> 5, name |-> "Puddle Light",
     desc |-> "Door puddle light", cat |-> "lighting", safety |-> "safe"],
    [module |-> "13", byte |-> 0, bit |-> 0, name |-> "ACC Active",
     desc |-> "Adaptive cruise control", cat |-> "safety", safety |-> "caution"],
    [module |-> "13", byte |-> 0, bit |-> 1, name |-> "Stop and Go",
     desc |-> "Stop and go traffic assist", cat |-> "comfort", safety |-> "caution"],
    [module |-> "13", byte |-> 0, bit |-> 2, name |-> "Follow Distance",
     desc |-> "Adjustable follow distance", cat |-> "comfort", safety |-> "safe"],
    [module |-> "13", byte |-> 0, bit |-> 3, name |-> "Speed Limit Info",
     desc |-> "Speed limit recognition", cat |-> "display", safety |-> "safe"],
    [module |-> "13", byte |-> 0, bit |-> 4, name |-> "Pre-Sense Brake",
     desc |-> "Pre-sense emergency braking", cat |-> "safety", safety |-> "caution"],
    [module |-> "13", byte |-> 0, bit |-> 5, name |-> "Cross Traffic",
     desc |-> "Cross traffic alert", cat |-> "safety", safety |-> "safe"]>>

\* the CodingBitRegistry row built in the insert branch of seed_vag_coding_bits;
\* id stands for the row's generated primary key
new_bit(id, b) ==
    [id |-> id, manufacturer |-> "VAG", module_address |-> b.module,
     byte_index |-> b.byte, bit_index |-> b.bit, name |-> b.name,
     description |-> b.desc, category |-> b.cat, safety_level |-> b.safety,
     platforms |-> NullArray, source |-> "ross-tech-wiki"]

\* the ModuleRegistry row built in the insert branch of seed_vag_modules
new_module(id, m) ==
    [id |-> id, manufacturer |-> "VAG", address |-> m.address, name |-> m.name,
     long_name |-> m.long_name, can_id |-> m.can_id,
     coding_supported |-> m.coding_supported, priority |-> m.priority,
     platforms |-> NullArray, is_active |-> TRUE]

(***************************************************************************)
(* Rows and requests the decoder is exercised on                           *)
(***************************************************************************)
\* candidate coding_bit_registry rows: seeded rows of modules 17 and 09, two of
\* them given a platform restriction
DecodeBitUniverse ==
    {new_bit(<<"seed", 1>>, VagCodingBits[1]),
     new_bit(<<"seed", 4>>, VagCodingBits[4]),
     [new_bit(<<"seed", 10>>, VagCodingBits[10]) EXCEPT !.platforms = Array({"MQB"})],
     [new_bit(<<"seed", 24>>, VagCodingBits[24]) EXCEPT !.platforms = Array({"MLB"})],
     new_bit(<<"seed", 25>>, VagCodingBits[25])}

\* coding_bit_registry as a completed seed_vag_coding_bits leaves it
SeededBitRows == {new_bit(<<"seed", i>>, VagCodingBits[i]) : i \in 1..Len(VagCodingBits)}

DecodeModuleRows == {new_module(<<"seed", 8>>, VagModules[8])}

\* characters of the rawBytes strings: hex digits in both cases, the space the
\* decoder removes, a whitespace character it does not remove, a non-hex letter
HexAlphabet == {"0", "b", " ", "\n", "Z"}

RECURSIVE StringsUpTo(_, _)
StringsUpTo(alphabet, n) ==
    IF n = 0 THEN {<<>>}
    ELSE LET shorter == StringsUpTo(alphabet, n - 1)
         IN  shorter \cup {Append(s, c) : s \in shorter, c \in alphabet}

RawHexStrings == StringsUpTo(HexAlphabet, MaxHexLen)

DecodeRequests ==
    [manufacturer : {"VAG"}, module_address : {"17", "09"},
     raw_bytes : RawHexStrings, platform : {NULL, "MQB"}]

(***************************************************************************)
(* Decoder specification: the registry and the request are drawn in the    *)
(* initial state, the one action is the call of parse_coding_bytes.        *)
(***************************************************************************)
NoDecode == [manufacturer |-> "VAG", module_address |-> "", raw_bytes |-> <<>>,
             platform |-> NULL]

PidIdle ==
    /\ pidProfiles = {}
    /\ discoveredPids = EmptyBag
    /\ reports = 0
    /\ reportRes = <<>>

SeedProcs == {"s1", "s2"}

NoRow == <<>>

SeedIdle ==
    /\ seedPc = [p \in SeedProcs |-> "idle"]
    /\ seedIdx = [p \in SeedProcs |-> 0]
    /\ seedFound = [p \in SeedProcs |-> NoRow]
    /\ seedIns = [p \in SeedProcs |-> {}]
    /\ seedUpd = [p \in SeedProcs |-> {}]
    /\ seedOutcome = [p \in SeedProcs |-> "none"]
    /\ seedStart = [p \in SeedProcs |-> [seeded |-> FALSE, modules |-> 0, bits |-> 0]]

\* an Optional[str] argument: None, or a string
NoneStr == [some |-> FALSE, text |-> <<>>]
Str(text) == [some |-> TRUE, text |-> text]

ClassifyIdle ==
    /\ classifyReq = NoneStr
    /\ classifyRes = <<>>

NoList == [manufacturer |-> "VAG", platform |-> NULL]

ListIdle ==
    /\ listReq = NoList
    /\ listRes = <<>>

Clients == {"c1", "c2"}

IdleCall == [pc |-> "idle", req |-> NoDecode, res |-> <<>>]

StoreIdle ==
    /\ discoveredModules = <<>>
    /\ codingHistory = <<>>
    /\ calls = [c \in Clients |-> IdleCall]
    /\ discCall = <<>>
    /\ histCall = <<>>

NoRequest == [json_ok |-> FALSE, manufacturer |-> NoneStr, moduleAddress |-> NULL,
              rawBytes |-> NoneStr, platform |-> NULL]

HttpIdle ==
    /\ httpReq = NoRequest
    /\ httpRes = <<>>

NoRecommend == [vin |-> <<>>, manufacturer |-> "GENERIC"]

RecIdle ==
    /\ pidRegistry = {}
    /\ recReq = NoRecommend
    /\ recRes = <<>>

Workers == {"w1", "w2"}

NoReport == [vin |-> <<>>, manufacturer |-> "GENERIC", working_pids |-> <<>>,
             failed_pids |-> <<>>]

RaceIdle ==
    /\ racePc = [w \in Workers |-> "idle"]
    /\ raceArgs = [w \in Workers |-> NoReport]
    /\ raceSeen = [w \in Workers |-> <<>>]
    /\ raceRes = [w \in Workers |-> <<>>]

ServiceIdle ==
    /\ ListIdle
    /\ StoreIdle
    /\ HttpIdle
    /\ RecIdle
    /\ RaceIdle

InitDecode ==
    /\ SeedIdle
    /\ ClassifyIdle
    /\ ServiceIdle
    /\ moduleRows = DecodeModuleRows
    /\ bitRows \in SUBSET DecodeBitUniverse
    /\ decodeReq \in DecodeRequests
    /\ decodeRes = <<>>
    /\ PidIdle

Decode ==
    /\ decodeRes = <<>>
    /\ decodeRes' = <<parse_coding_bytes(decodeReq.manufacturer, decodeReq.module_address,
                                         decodeReq.raw_bytes, decodeReq.platform)>>
    /\ UNCHANGED <<moduleRows, bitRows, decodeReq, pidVars, seedVars, classifyVars, serviceVars>>

NextDecode == Decode

SpecDecode == InitDecode /\ [][NextDecode]_vars

\* the decoder called on the registry a completed seed leaves
InitSeededDecode ==
    /\ SeedIdle
    /\ ClassifyIdle
    /\ ServiceIdle
    /\ moduleRows = DecodeModuleRows
    /\ bitRows = SeededBitRows
    /\ decodeReq \in DecodeRequests
    /\ decodeRes = <<>>
    /\ PidIdle

SpecSeededDecode == InitSeededDecode /\ [][NextDecode]_vars

(***************************************************************************)
(* Seed requests (POST modules/seed): seed_vag_modules, then                *)
(* seed_vag_coding_bits, each in a transaction of its own.  A request is   *)
(* split where it talks to the database: the existence check of a list     *)
(* entry, the write that follows it, and the commit.  Rows written in an   *)
(* open transaction are seen by that transaction only; the unique indexes  *)
(* make an insert wait for an open transaction that inserted the same key  *)
(* and fail once that key is committed.                                    *)
(***************************************************************************)
vag_modules == SubSeq(VagModules, 1, MaxSeedModules)

\* variant: byte positions are stored one lower than the list gives them
coding_bits_byte_before ==
    [i \in 1..MaxSeedBits |-> [VagCodingBits[i] EXCEPT !.byte = @ - 1]]

coding_bits == SubSeq(VagCodingBits, 1, MaxSeedBits)

\* bug variant: the index is not unique
module_conflicts_none(row, rows) == {}

\* ix_module_registry_manufacturer_address (unique): rows with the key of row
module_conflicts(row, rows) ==
    {r \in rows : r.manufacturer = row.manufacturer /\ r.address = row.address}

\* ix_coding_bit_location (unique): rows with the key of row
bit_conflicts(row, rows) ==
    {r \in rows : /\ r.manufacturer = row.manufacturer
                  /\ r.module_address = row.module_address
                  /\ r.byte_index = row.byte_index
                  /\ r.bit_index = row.bit_index}

\* bug variant: the priority of an existing row is left as it is
updated_module_keep_priority(existing, m) ==
    [existing EXCEPT !.name = m.name, !.long_name = m.long_name,
                     !.can_id = m.can_id, !.coding_supported = m.coding_supported]

\* the branch "if existing" of seed_vag_modules
updated_module(existing, m) ==
    [existing EXCEPT !.name = m.name, !.long_name = m.long_name,
                     !.can_id = m.can_id, !.coding_supported = m.coding_supported,
                     !.priority = m.priority]

\* the branch "if existing" of seed_vag_coding_bits
updated_bit(existing, b) ==
    [existing EXCEPT !.name = b.name, !.description = b.desc,
                     !.category = b.cat, !.safety_level = b.safety]

Ids(rows) == {r.id : r \in rows}

\* a table as one transaction sees it: committed rows, its rewrites, its inserts
ViewOf(table, ins, upd) == {r \in table : r.id \notin Ids(upd)} \cup upd \cup ins

\* rows of one table ("mod" or "bit") written in the open transactions of the
\* requests other than p
OthersIns(p, kind) == {r \in UNION {seedIns[q] : q \in SeedProcs \ {p}} : r.id[2] = kind}
OthersUpd(p, kind) == {r \in UNION {seedUpd[q] : q \in SeedProcs \ {p}} : r.id[2] = kind}

\* every identity of the two seed lists has a committed row
RegistrySeeded ==
    /\ \A i \in 1..Len(vag_modules) :
          \E r \in moduleRows : r.manufacturer = "VAG" /\ r.address = vag_modules[i].address
    /\ \A i \in 1..Len(coding_bits) :
          \E r \in bitRows : /\ r.manufacturer = "VAG"
                             /\ r.module_address = coding_bits[i].module
                             /\ r.byte_index = coding_bits[i].byte
                             /\ r.bit_index = coding_bits[i].bit

\* the exception leaves the "with get_session()" block: the transaction is
\* rolled back and module_seed answers 500
SeedFail(p, exception) ==
    /\ seedPc' = [seedPc EXCEPT ![p] = "failed"]
    /\ seedOutcome' = [seedOutcome EXCEPT ![p] = exception]
    /\ seedIns' = [seedIns EXCEPT ![p] = {}]
    /\ seedUpd' = [seedUpd EXCEPT ![p] = {}]
    /\ seedFound' = [seedFound EXCEPT ![p] = NoRow]
    /\ UNCHANGED <<seedIdx, seedStart>>

\* module_seed is entered by an administrator
SeedStart(p) ==
    /\ seedPc[p] = "idle"
    /\ seedPc' = [seedPc EXCEPT ![p] = "mod_check"]
    /\ seedIdx' = [seedIdx EXCEPT ![p] = 1]
    /\ seedStart' = [seedStart EXCEPT ![p] =
                        [seeded |-> RegistrySeeded,
                         modules |-> Cardinality(moduleRows),
                         bits |-> Cardinality(bitRows)]]
    /\ UNCHANGED <<registryVars, decodeVars, pidVars, classifyVars, serviceVars, seedFound, seedIns,
                   seedUpd, seedOutcome>>

\* seed_vag_modules: the select ... scalar_one_or_none() for entry seedIdx[p]
SeedModuleCheck(p) ==
    /\ seedPc[p] = "mod_check"
    /\ LET m == vag_modules[seedIdx[p]]
           found == {r \in ViewOf(moduleRows, seedIns[p], seedUpd[p]) :
                        r.manufacturer = "VAG" /\ r.address = m.address}
       IN  IF Cardinality(found) > 1
           THEN SeedFail(p, "MultipleResultsFound")
           ELSE /\ seedFound' = [seedFound EXCEPT ![p] =
                                    IF found = {} THEN NoRow
                                    ELSE (CHOOSE r \in found : TRUE).id]
                /\ seedPc' = [seedPc EXCEPT ![p] = "mod_write"]
                /\ UNCHANGED <<seedIdx, seedIns, seedUpd, seedOutcome, seedStart>>
    /\ UNCHANGED <<registryVars, decodeVars, pidVars, classifyVars, serviceVars>>

SeedAdvance(p, length, check, commit) ==
    /\ seedPc' = [seedPc EXCEPT ![p] = IF seedIdx[p] < length THEN check ELSE commit]
    /\ seedIdx' = [seedIdx EXCEPT ![p] = IF seedIdx[p] < length THEN seedIdx[p] + 1 ELSE 0]
    /\ seedFound' = [seedFound EXCEPT ![p] = NoRow]

\* seed_vag_modules: the update of the row found, or the insert of a new row
SeedModuleWrite(p) ==
    /\ seedPc[p] = "mod_write"
    /\ LET m == vag_modules[seedIdx[p]]
       IN  IF seedFound[p] # NoRow
           THEN LET existing == CHOOSE r \in ViewOf(moduleRows, seedIns[p], seedUpd[p]) :
                                    r.id = seedFound[p]
                    row == updated_module(existing, m)
                IN  /\ row # existing => existing.id \notin Ids(OthersUpd(p, "mod"))
                    /\ IF row = existing \/ row.id \in Ids(seedIns[p])
                       THEN UNCHANGED seedUpd
                       ELSE seedUpd' = [seedUpd EXCEPT ![p] =
                                {r \in seedUpd[p] : r.id # row.id} \cup {row}]
                    /\ seedIns' = [seedIns EXCEPT ![p] =
                            IF row.id \in Ids(seedIns[p])
                            THEN {r \in seedIns[p] : r.id # row.id} \cup {row}
                            ELSE seedIns[p]]
                    /\ SeedAdvance(p, Len(vag_modules), "mod_check", "mod_commit")
                    /\ UNCHANGED <<seedOutcome, seedStart>>
           ELSE LET row == new_module(<<p, "mod", seedIdx[p]>>, m)
                IN  /\ module_conflicts(row, OthersIns(p, "mod")) = {}
                    /\ IF module_conflicts(row, moduleRows) # {}
                       THEN SeedFail(p, "IntegrityError")
                       ELSE /\ seedIns' = [seedIns EXCEPT ![p] = seedIns[p] \cup {row}]
                            /\ SeedAdvance(p, Len(vag_modules), "mod_check", "mod_commit")
                            /\ UNCHANGED <<seedUpd, seedOutcome, seedStart>>
    /\ UNCHANGED <<registryVars, decodeVars, pidVars, classifyVars, serviceVars>>

\* seed_vag_modules: session.commit(); seed_vag_coding_bits begins
SeedModuleCommit(p) ==
    /\ seedPc[p] = "mod_commit"
    /\ moduleRows' = ViewOf(moduleRows, seedIns[p], seedUpd[p])
    /\ seedIns' = [seedIns EXCEPT ![p] = {}]
    /\ seedUpd' = [seedUpd EXCEPT ![p] = {}]
    /\ seedPc' = [seedPc EXCEPT ![p] = "bit_check"]
    /\ seedIdx' = [seedIdx EXCEPT ![p] = 1]
    /\ UNCHANGED <<bitRows, decodeVars, pidVars, classifyVars, serviceVars, seedFound, seedOutcome, seedStart>>

\* seed_vag_coding_bits: the select ... scalar_one_or_none() for entry seedIdx[p]
SeedBitCheck(p) ==
    /\ seedPc[p] = "bit_check"
    /\ LET b == coding_bits[seedIdx[p]]
           found == {r \in ViewOf(bitRows, seedIns[p], seedUpd[p]) :
                        /\ r.manufacturer = "VAG"
                        /\ r.module_address = b.module
                        /\ r.byte_index = b.byte
                        /\ r.bit_index = b.bit}
       IN  IF Cardinality(found) > 1
           THEN SeedFail(p, "MultipleResultsFound")
           ELSE /\ seedFound' = [seedFound EXCEPT ![p] =
                                    IF found = {} THEN NoRow
                                    ELSE (CHOOSE r \in found : TRUE).id]
                /\ seedPc' = [seedPc EXCEPT ![p] = "bit_write"]
                /\ UNCHANGED <<seedIdx, seedIns, seedUpd, seedOutcome, seedStart>>
    /\ UNCHANGED <<registryVars, decodeVars, pidVars, classifyVars, serviceVars>>

\* seed_vag_coding_bits: the update of the row found, or the insert of a new row
SeedBitWrite(p) ==
    /\ seedPc[p] = "bit_write"
    /\ LET b == coding_bits[seedIdx[p]]
       IN  IF seedFound[p] # NoRow
           THEN LET existing == CHOOSE r \in ViewOf(bitRows, seedIns[p], seedUpd[p]) :
                                    r.id = seedFound[p]
                    row == updated_bit(existing, b)
                IN  /\ row # existing => existing.id \notin Ids(OthersUpd(p, "bit"))
                    /\ IF row = existing \/ row.id \in Ids(seedIns[p])
                       THEN UNCHANGED seedUpd
                       ELSE seedUpd' = [seedUpd EXCEPT ![p] =
                                {r \in seedUpd[p] : r.id # row.id} \cup {row}]
                    /\ seedIns' = [seedIns EXCEPT ![p] =
                            IF row.id \in Ids(seedIns[p])
                            THEN {r \in seedIns[p] : r.id # row.id} \cup {row}
                            ELSE seedIns[p]]
                    /\ SeedAdvance(p, Len(coding_bits), "bit_check", "bit_commit")
                    /\ UNCHANGED <<seedOutcome, seedStart>>
           ELSE LET row == new_bit(<<p, "bit", seedIdx[p]>>, b)
                IN  /\ bit_conflicts(row, OthersIns(p, "bit")) = {}
                    /\ IF bit_conflicts(row, bitRows) # {}
                       THEN SeedFail(p, "IntegrityError")
                       ELSE /\ seedIns' = [seedIns EXCEPT ![p] = seedIns[p] \cup {row}]
                            /\ SeedAdvance(p, Len(coding_bits), "bit_check", "bit_commit")
                            /\ UNCHANGED <<seedUpd, seedOutcome, seedStart>>
    /\ UNCHANGED <<registryVars, decodeVars, pidVars, classifyVars, serviceVars>>

\* seed_vag_coding_bits: session.commit(); module_seed answers 200
SeedBitCommit(p) ==
    /\ seedPc[p] = "bit_commit"
    /\ bitRows' = ViewOf(bitRows, seedIns[p], seedUpd[p])
    /\ seedIns' = [seedIns EXCEPT ![p] = {}]
    /\ seedUpd' = [seedUpd EXCEPT ![p] = {}]
    /\ seedPc' = [seedPc EXCEPT ![p] = "done"]
    /\ seedOutcome' = [seedOutcome EXCEPT ![p] = "ok"]
    /\ UNCHANGED <<moduleRows, decodeVars, pidVars, classifyVars, serviceVars, seedIdx, seedFound, seedStart>>

\* rows an earlier revision of the catalogue left behind for the first n
\* identities of a seed list: the identity is the seeded one, the mutable
\* columns differ
StaleModules(n) ==
    {[new_module(<<"init", "mod", i>>, vag_modules[i])
        EXCEPT !.name = "earlier name", !.long_name = "earlier long name",
               !.can_id = "000", !.coding_supported = ~vag_modules[i].coding_supported,
               !.priority = 50] : i \in 1..n}

StaleBits(n) ==
    {[new_bit(<<"init", "bit", i>>, coding_bits[i])
        EXCEPT !.name = "earlier name", !.description = "earlier description",
               !.category = "other", !.safety_level = "advanced",
               !.source = "manual"] : i \in 1..n}

InitSeed ==
    /\ SeedIdle
    /\ ClassifyIdle
    /\ ServiceIdle
    /\ PidIdle
    /\ decodeReq = NoDecode
    /\ decodeRes = <<>>
    /\ moduleRows \in {{}, StaleModules(1), StaleModules(Len(vag_modules))}
    /\ bitRows \in {{}, StaleBits(1), StaleBits(Len(coding_bits))}

NextSeed ==
    \E p \in SeedProcs :
        \/ SeedStart(p)
        \/ SeedModuleCheck(p)
        \/ SeedModuleWrite(p)
        \/ SeedModuleCommit(p)
        \/ SeedBitCheck(p)
        \/ SeedBitWrite(p)
        \/ SeedBitCommit(p)

SpecSeed == InitSeed /\ [][NextSeed]_vars

(***************************************************************************)
(* PID discovery accumulator (services/pid_service.py)                     *)
(***************************************************************************)
\* a nullable text column holding no value
NoText == <<>>

VinPrefixLen == 8
MinVinLen == 8

get_vin_prefix(vin) ==
    IF vin = <<>> \/ Len(vin) < MinVinLen THEN <<>>
    ELSE Upper(SubSeq(vin, 1, VinPrefixLen))

KwBoost == <<"b","o","o","s","t">>
KwOilTemp == <<"o","i","l","_","t","e","m","p">>
KwChargeAir == <<"c","h","a","r","g","e","_","a","i","r">>

\* variant: a matching PID is stored whether or not the field holds a value
scan_step_overwrite(f, pid_id) ==
    IF Contains(Lower(pid_id), KwBoost) THEN [f EXCEPT !.boost_pid = pid_id]
    ELSE IF Contains(Lower(pid_id), KwOilTemp) THEN [f EXCEPT !.oil_temp_pid = pid_id]
    ELSE IF Contains(Lower(pid_id), KwChargeAir) THEN [f EXCEPT !.charge_air_temp_pid = pid_id]
    ELSE f

\* one pass of the loop "for pid_id in new_working" over the convenience fields
scan_step(f, pid_id) ==
    IF Contains(Lower(pid_id), KwBoost) /\ f.boost_pid = NoText
    THEN [f EXCEPT !.boost_pid = pid_id]
    ELSE IF Contains(Lower(pid_id), KwOilTemp) /\ f.oil_temp_pid = NoText
    THEN [f EXCEPT !.oil_temp_pid = pid_id]
    ELSE IF Contains(Lower(pid_id), KwChargeAir) /\ f.charge_air_temp_pid = NoText
    THEN [f EXCEPT !.charge_air_temp_pid = pid_id]
    ELSE f

RECURSIVE scan_working(_, _)
scan_working(f, new_working) ==
    IF new_working = <<>> THEN f
    ELSE scan_working(scan_step(f, Head(new_working)), Tail(new_working))

SeqToSet(q) == {q[i] : i \in 1..Len(q)}

\* list(some_set): the elements once each, in an order Python does not fix
ListsOf(S) ==
    {q \in [1..Cardinality(S) -> S] : \A i, j \in 1..Cardinality(S) : i # j => q[i] # q[j]}

\* variant: the confidence grows by a tenth with every sample
confidence_for_linear(sample_count) == 50 + sample_count * 10

\* confidence in hundredths, as the branch for an existing profile computes it
confidence_for(sample_count) ==
    IF sample_count >= 10 THEN 95
    ELSE IF sample_count >= 5 THEN 85
    ELSE IF sample_count >= 3 THEN 75
    ELSE 50 + sample_count * 10

InitialSampleCount == 1

\* variant: a new profile is given the confidence the update branch computes
InitialConfidence_step == confidence_for(InitialSampleCount)

InitialConfidence == 50

\* the branch "if not profile": the rows the new profile may be stored as
new_profiles(vin_prefix, manufacturer, new_working, new_failed) ==
    LET working_set == SeqToSet(new_working)
        failed_set  == SeqToSet(new_failed)
        f == scan_working([boost_pid |-> NoText, oil_temp_pid |-> NoText,
                           charge_air_temp_pid |-> NoText], new_working)
    IN  {[vin_prefix          |-> vin_prefix,
          manufacturer        |-> manufacturer,
          boost_pid           |-> f.boost_pid,
          oil_temp_pid        |-> f.oil_temp_pid,
          charge_air_temp_pid |-> f.charge_air_temp_pid,
          trans_temp_pid      |-> NoText,
          working_pids        |-> w,
          failed_pids         |-> fl,
          sample_count        |-> InitialSampleCount,
          confidence          |-> InitialConfidence] :
            w \in ListsOf(working_set), fl \in ListsOf(failed_set \ working_set)}

\* bug variant: only the PIDs of this report are taken out of the failed set
merge_failed_new_only(existing_failed, new_failed, existing_working, new_working) ==
    (existing_failed \cup new_failed) \ new_working

\* new_failed_set = existing_failed.union(set(new_failed)) - new_working_set
merge_failed(existing_failed, new_failed, existing_working, new_working) ==
    (existing_failed \cup new_failed) \ (existing_working \cup new_working)

\* the branch "else": the rows an existing profile may be rewritten to
updated_profiles(profile, new_working, new_failed) ==
    LET existing_working == SeqToSet(profile.working_pids)
        existing_failed  == SeqToSet(profile.failed_pids)
        new_working_set  == existing_working \cup SeqToSet(new_working)
        new_failed_set   == merge_failed(existing_failed, SeqToSet(new_failed),
                                         existing_working, SeqToSet(new_working))
        f == scan_working([boost_pid |-> profile.boost_pid,
                           oil_temp_pid |-> profile.oil_temp_pid,
                           charge_air_temp_pid |-> profile.charge_air_temp_pid],
                          new_working)
        count == profile.sample_count + 1
    IN  {[profile EXCEPT !.boost_pid = f.boost_pid,
                         !.oil_temp_pid = f.oil_temp_pid,
                         !.charge_air_temp_pid = f.charge_air_temp_pid,
                         !.working_pids = w,
                         !.failed_pids = fl,
                         !.sample_count = count,
                         !.confidence = confidence_for(count)] :
            w \in ListsOf(new_working_set), fl \in ListsOf(new_failed_set)}

\* the UPDATE of the commit: columns whose new value differs from the loaded one
\* are written, the other columns keep what the table holds
write_columns(current, loaded, new) ==
    [col \in DOMAIN current |-> IF new[col] # loaded[col] THEN new[col] ELSE current[col]]

\* variant: the profile of the prefix is replaced by a new one on every report
update_pid_profile_recreate(table, vin_prefix, manufacturer, new_working, new_failed) ==
    {(table \ {old \in table : old.vin_prefix = vin_prefix}) \cup {r} :
        r \in new_profiles(vin_prefix, manufacturer, new_working, new_failed)}

\* _update_pid_profile run to its commit: the possible contents of pid_profiles
update_pid_profile(table, vin_prefix, manufacturer, new_working, new_failed) ==
    LET found == {r \in table : r.vin_prefix = vin_prefix}
    IN  IF found = {}
        THEN {table \cup {r} :
                r \in new_profiles(vin_prefix, manufacturer, new_working, new_failed)}
        ELSE LET profile == CHOOSE r \in found : TRUE
             IN  {(table \ {profile}) \cup {r} :
                    r \in updated_profiles(profile, new_working, new_failed)}

\* the DiscoveredPID rows one report adds
RECURSIVE fact_rows(_, _, _, _, _)
fact_rows(vin, vin_prefix, manufacturer, pids, success) ==
    IF pids = <<>> THEN EmptyBag
    ELSE SetToBag({[vin |-> Upper(vin), vin_prefix |-> vin_prefix,
                    manufacturer |-> manufacturer, pid_id |-> Head(pids),
                    success |-> success]})
         (+) fact_rows(vin, vin_prefix, manufacturer, Tail(pids), success)

\* report_discovered_pids, one call from entry to return
report_discovered_pids(vin, manufacturer, working_pids, failed_pids) ==
    LET vin_prefix == get_vin_prefix(vin)
    IN  /\ reports' = reports + 1
        /\ IF vin_prefix = <<>>
           THEN /\ reportRes' = <<[error |-> "Invalid VIN"]>>
                /\ UNCHANGED <<pidProfiles, discoveredPids>>
           ELSE /\ discoveredPids' =
                      discoveredPids
                      (+) fact_rows(vin, vin_prefix, manufacturer, working_pids, TRUE)
                      (+) fact_rows(vin, vin_prefix, manufacturer, failed_pids, FALSE)
                /\ pidProfiles' \in update_pid_profile(pidProfiles, vin_prefix, manufacturer,
                                                       working_pids, failed_pids)
                /\ reportRes' = <<[success |-> TRUE, vinPrefix |-> vin_prefix,
                                   workingCount |-> Len(working_pids),
                                   failedCount |-> Len(failed_pids)]>>
        /\ UNCHANGED <<registryVars, decodeVars, seedVars, classifyVars, serviceVars>>

\* a call of report_discovered_pids, while fewer than MaxReports were made
ReportPIDs(vin, manufacturer, working_pids, failed_pids) ==
    /\ reports < MaxReports
    /\ report_discovered_pids(vin, manufacturer, working_pids, failed_pids)

\* VINs of the reports: one too short for a prefix, two that share their first
\* 8 characters (one in lower case) and differ at the 11th, one of another make
ReportVins ==
    {<<"W","A","U","Z","Z","Z","8">>,
     <<"w","a","u","z","z","z","8","k","9","e","a","1">>,
     <<"W","A","U","Z","Z","Z","8","K","9","E","B","2">>,
     <<"W","B","A","Z","Z","Z","8","K","9","E","A","1">>}

PidIds ==
    {<<"b","o","o","s","t","_","s","t","d","_","7","0">>,
     <<"B","O","O","S","T","_","o","i","l","_","t","e","m","p">>,
     <<"t","r","a","n","s","_","t","e","m","p","_","s","t","d">>}

PidLists(n) == UNION {[1..k -> PidIds] : k \in 0..n}

InitPid ==
    /\ SeedIdle
    /\ ClassifyIdle
    /\ ServiceIdle
    /\ moduleRows = {}
    /\ bitRows = {}
    /\ decodeReq = NoDecode
    /\ decodeRes = <<>>
    /\ PidIdle

NextPid ==
    \E vin \in ReportVins, w \in PidLists(MaxPidsPerReport), f \in PidLists(MaxPidsPerReport) :
        /\ Len(w) + Len(f) <= MaxPidsPerReport
        /\ ReportPIDs(vin, "VAG", w, f)

SpecPid == InitPid /\ [][NextPid]_vars

(***************************************************************************)
(* A long run of reports for one VIN prefix, each naming at most one PID,  *)
(* so that sample_count passes every threshold of the confidence.          *)
(***************************************************************************)
SampleVin == <<"w","a","u","z","z","z","8","k","9","e","a","1">>

SamplePids ==
    {<<"b","o","o","s","t","_","s","t","d","_","7","0">>,
     <<"t","r","a","n","s","_","t","e","m","p","_","s","t","d">>}

SampleLists == {<<>>} \cup {<<p>> : p \in SamplePids}

\* a call of report_discovered_pids, while fewer than MaxSamples were made
ReportSample(vin, manufacturer, working_pids, failed_pids) ==
    /\ reports < MaxSamples
    /\ report_discovered_pids(vin, manufacturer, working_pids, failed_pids)

NextSamples ==
    \E w \in SampleLists, f \in SampleLists :
        /\ Len(w) + Len(f) <= 1
        /\ ReportSample(SampleVin, "VAG", w, f)

SpecSamples == InitPid /\ [][NextSamples]_vars

(***************************************************************************)
(* One report for a prefix whose profile, if it has one, was made by an    *)
(* earlier report; the PIDs give every convenience field two candidates.   *)
(***************************************************************************)
FirstFieldPids ==
    {<<"b","o","o","s","t","_","s","t","d","_","7","0">>,
     <<"o","i","l","_","t","e","m","p","_","s","t","d">>,
     <<"c","h","a","r","g","e","_","a","i","r","_","t","e","m","p","_","s","t","d">>}

FieldPids ==
    FirstFieldPids \cup
    {<<"b","o","o","s","t","_","s","t","d","_","8","7">>,
     <<"o","i","l","_","t","e","m","p","_","u","d","s","_","v","a","g">>,
     <<"C","H","A","R","G","E","_","A","I","R","_","2">>}

FieldLists(n) == UNION {[1..k -> FieldPids] : k \in 0..n}

\* working lists of the earlier report
EarlierLists == UNION {ListsOf(S) : S \in SUBSET FirstFieldPids}

InitFields ==
    /\ SeedIdle
    /\ ClassifyIdle
    /\ ServiceIdle
    /\ moduleRows = {}
    /\ bitRows = {}
    /\ decodeReq = NoDecode
    /\ decodeRes = <<>>
    /\ reports = 0
    /\ reportRes = <<>>
    /\ \/ pidProfiles = {} /\ discoveredPids = EmptyBag
       \/ \E w \in EarlierLists :
             /\ \E r \in new_profiles(get_vin_prefix(SampleVin), "VAG", w, <<>>) :
                    pidProfiles = {r}
             /\ discoveredPids =
                    fact_rows(SampleVin, get_vin_prefix(SampleVin), "VAG", w, TRUE)

\* the one call of report_discovered_pids of the behaviour
ReportField(vin, manufacturer, working_pids, failed_pids) ==
    /\ reportRes = <<>>
    /\ report_discovered_pids(vin, manufacturer, working_pids, failed_pids)

NextFields ==
    \E w \in FieldLists(MaxPidsPerReport), f \in FieldLists(MaxPidsPerReport) :
        /\ Len(w) + Len(f) <= MaxPidsPerReport
        /\ ReportField(SampleVin, "VAG", w, f)

SpecFields == InitFields /\ [][NextFields]_vars

(***************************************************************************)
(* Manufacturer classifier (get_manufacturer_group)                        *)
(***************************************************************************)
VAG_MAKES ==
    <<<<"v","o","l","k","s","w","a","g","e","n">>,
      <<"v","w">>,
      <<"a","u","d","i">>,
      <<"p","o","r","s","c","h","e">>,
      <<"l","a","m","b","o","r","g","h","i","n","i">>,
      <<"b","e","n","t","l","e","y">>,
      <<"b","u","g","a","t","t","i">>,
      <<"s","e","a","t">>,
      <<"s","k","o","d","a">>,
      <<"c","u","p","r","a">>>>

BMW_MAKES ==
    <<<<"b","m","w">>,
      <<"m","i","n","i">>,
      <<"r","o","l","l","s","-","r","o","y","c","e">>,
      <<"r","o","l","l","s"," ","r","o","y","c","e">>>>

TOYOTA_MAKES ==
    <<<<"t","o","y","o","t","a">>,
      <<"l","e","x","u","s">>,
      <<"s","c","i","o","n">>>>

GM_MAKES ==
    <<<<"c","h","e","v","r","o","l","e","t">>,
      <<"c","h","e","v","y">>,
      <<"g","m","c">>,
      <<"c","a","d","i","l","l","a","c">>,
      <<"b","u","i","c","k">>,
      <<"o","l","d","s","m","o","b","i","l","e">>,
      <<"p","o","n","t","i","a","c">>,
      <<"s","a","t","u","r","n">>,
      <<"h","u","m","m","e","r">>>>

FORD_MAKES ==
    <<<<"f","o","r","d">>,
      <<"l","i","n","c","o","l","n">>,
      <<"m","e","r","c","u","r","y">>>>

STELLANTIS_MAKES ==
    <<<<"c","h","r","y","s","l","e","r">>,
      <<"d","o","d","g","e">>,
      <<"j","e","e","p">>,
      <<"r","a","m">>,
      <<"f","i","a","t">>,
      <<"a","l","f","a"," ","r","o","m","e","o">>,
      <<"m","a","s","e","r","a","t","i">>,
      <<"p","e","u","g","e","o","t">>,
      <<"c","i","t","r","o","e","n">>,
      <<"o","p","e","l">>,
      <<"v","a","u","x","h","a","l","l">>>>

HONDA_MAKES ==
    <<<<"h","o","n","d","a">>,
      <<"a","c","u","r","a">>>>

NISSAN_MAKES ==
    <<<<"n","i","s","s","a","n">>,
      <<"i","n","f","i","n","i","t","i">>,
      <<"d","a","t","s","u","n">>>>

HYUNDAI_MAKES ==
    <<<<"h","y","u","n","d","a","i">>,
      <<"k","i","a">>,
      <<"g","e","n","e","s","i","s">>>>

MERCEDES_MAKES ==
    <<<<"m","e","r","c","e","d","e","s">>,
      <<"m","e","r","c","e","d","e","s","-","b","e","n","z">>,
      <<"s","m","a","r","t">>,
      <<"m","a","y","b","a","c","h">>>>

\* bug variant: the BMW list is consulted before the VAG list
GroupChecks_bmw_first ==
    <<[group |-> "BMW", makes |-> BMW_MAKES],
      [group |-> "VAG", makes |-> VAG_MAKES],
      [group |-> "TOYOTA", makes |-> TOYOTA_MAKES],
      [group |-> "GM", makes |-> GM_MAKES],
      [group |-> "FORD", makes |-> FORD_MAKES],
      [group |-> "STELLANTIS", makes |-> STELLANTIS_MAKES],
      [group |-> "HONDA", makes |-> HONDA_MAKES],
      [group |-> "NISSAN", makes |-> NISSAN_MAKES],
      [group |-> "HYUNDAI", makes |-> HYUNDAI_MAKES],
      [group |-> "MERCEDES", makes |-> MERCEDES_MAKES]>>

\* the chain of "if any(m in normalized for m in X_MAKES): return X", top down
GroupChecks ==
    <<[group |-> "VAG", makes |-> VAG_MAKES],
      [group |-> "BMW", makes |-> BMW_MAKES],
      [group |-> "TOYOTA", makes |-> TOYOTA_MAKES],
      [group |-> "GM", makes |-> GM_MAKES],
      [group |-> "FORD", makes |-> FORD_MAKES],
      [group |-> "STELLANTIS", makes |-> STELLANTIS_MAKES],
      [group |-> "HONDA", makes |-> HONDA_MAKES],
      [group |-> "NISSAN", makes |-> NISSAN_MAKES],
      [group |-> "HYUNDAI", makes |-> HYUNDAI_MAKES],
      [group |-> "MERCEDES", makes |-> MERCEDES_MAKES]>>

\* str.strip(): leading and trailing whitespace removed
RECURSIVE LStrip(_)
LStrip(s) == IF s # <<>> /\ Head(s) \in AsciiSpace THEN LStrip(Tail(s)) ELSE s

RECURSIVE RStrip(_)
RStrip(s) ==
    IF s # <<>> /\ s[Len(s)] \in AsciiSpace THEN RStrip(SubSeq(s, 1, Len(s) - 1)) ELSE s

Strip(s) == RStrip(LStrip(s))

\* any(m in normalized for m in makes)
any_make_in(makes, normalized) == \E i \in 1..Len(makes) : Contains(normalized, makes[i])

\* the if-chain from check number k on
RECURSIVE first_group(_, _)
first_group(normalized, k) ==
    IF k > Len(GroupChecks) THEN "GENERIC"
    ELSE IF any_make_in(GroupChecks[k].makes, normalized) THEN GroupChecks[k].group
    ELSE first_group(normalized, k + 1)

get_manufacturer_group(make) ==
    IF ~make.some \/ make.text = <<>> THEN "GENERIC"
    ELSE first_group(Strip(Lower(make.text)), 1)

\* pieces the make strings are put together from
MakeFragments ==
    {<<" ">>,
     <<"x">>,
     <<"V","W">>,
     <<"A","u","d","i">>,
     <<"b","m","w">>,
     <<"M","i","n","i">>,
     <<"L","e","x","u","s">>,
     <<"G","M","C">>,
     <<"F","o","r","d">>,
     <<"R","a","m">>,
     <<"A","c","u","r","a">>,
     <<"D","a","t","s","u","n">>,
     <<"K","i","a">>,
     <<"S","m","a","r","t">>}

\* the make strings of the documented examples
ExampleMakes ==
    {<<"V","o","l","k","s","w","a","g","e","n"," ","G","o","l","f">>,
     <<"u","n","k","n","o","w","n"," ","b","r","a","n","d">>,
     <<" "," ","R","o","l","l","s"," ","R","o","y","c","e","	">>,
     <<"M","e","r","c","e","d","e","s","-","B","e","n","z">>}

RECURSIVE MakeTexts(_)
MakeTexts(n) ==
    IF n = 0 THEN {<<>>}
    ELSE LET shorter == MakeTexts(n - 1)
         IN  shorter \cup {a \o b : a \in shorter, b \in MakeFragments}

MakeInputs == {NoneStr} \cup {Str(x) : x \in MakeTexts(MaxMakeParts) \cup ExampleMakes}

InitClassify ==
    /\ SeedIdle
    /\ ServiceIdle
    /\ PidIdle
    /\ moduleRows = {}
    /\ bitRows = {}
    /\ decodeReq = NoDecode
    /\ decodeRes = <<>>
    /\ classifyReq \in MakeInputs
    /\ classifyRes = <<>>

Classify ==
    /\ classifyRes = <<>>
    /\ classifyRes' = <<get_manufacturer_group(classifyReq)>>
    /\ UNCHANGED <<registryVars, decodeVars, pidVars, seedVars, classifyReq, serviceVars>>

NextClassify == Classify

SpecClassify == InitClassify /\ [][NextClassify]_vars

(***************************************************************************)
(* Module listing (get_modules_for_manufacturer)                           *)
(***************************************************************************)
\* the seeded addresses in ascending order of the text column
AddressCollation ==
    <<"01", "02", "03", "05", "08", "09", "13", "15", "16", "17", "19", "22",
      "25", "34", "36", "37", "38", "39", "42", "44", "46", "47", "4F", "52",
      "55", "56", "57", "5F", "62", "65", "69", "6C", "71", "72", "75", "76",
      "77", "A5">>

AddressRank(a) == CHOOSE i \in 1..Len(AddressCollation) : AddressCollation[i] = a

\* bug variant: ORDER BY address only
ModuleBefore_address_only(a, b) == AddressRank(a.address) < AddressRank(b.address)

\* ORDER BY priority, address
ModuleBefore(a, b) ==
    \/ a.priority < b.priority
    \/ a.priority = b.priority /\ AddressRank(a.address) < AddressRank(b.address)

RECURSIVE OrderModules(_)
OrderModules(S) ==
    IF S = {} THEN <<>>
    ELSE LET first == CHOOSE a \in S : \A b \in S \ {a} : ~ModuleBefore(b, a)
         IN  <<first>> \o OrderModules(S \ {first})

\* "if platform:" adds platforms.contains([platform]); the containment of a
\* NULL array is NULL, which a WHERE clause does not accept
ModulePlatformMatches(m, platform) ==
    \/ platform = NULL
    \/ platform = ""
    \/ ~m.platforms.null /\ platform \in m.platforms.items

\* the dictionary built for one ModuleRegistry row
ModuleDict(m) ==
    [address         |-> m.address,
     name            |-> m.name,
     longName        |-> m.long_name,
     canId           |-> m.can_id,
     codingSupported |-> m.coding_supported,
     platforms       |-> m.platforms.items]

get_modules_for_manufacturer(manufacturer, platform) ==
    LET selected == {m \in moduleRows :
                        /\ m.manufacturer = manufacturer
                        /\ m.is_active = TRUE
                        /\ ModulePlatformMatches(m, platform)}
        results  == OrderModules(selected)
    IN  [i \in 1..Len(results) |-> ModuleDict(results[i])]

\* candidate module_registry rows: seeded rows, one switched off, two with a
\* platform list, two of equal priority, one of another manufacturer
ListModuleUniverse ==
    {new_module(<<"seed", 1>>, VagModules[1]),
     [new_module(<<"seed", 5>>, VagModules[5]) EXCEPT !.is_active = FALSE],
     new_module(<<"seed", 8>>, VagModules[8]),
     [new_module(<<"seed", 9>>, VagModules[9]) EXCEPT !.platforms = Array({"MQB"})],
     [new_module(<<"seed", 21>>, VagModules[21]) EXCEPT !.platforms = Array({"MLB", "PQ35"}),
                                                        !.priority = 1],
     [new_module(<<"other", 1>>, VagModules[2]) EXCEPT !.manufacturer = "BMW"]}

ListRequests == [manufacturer : {"VAG", "BMW"}, platform : {NULL, "", "MQB"}]

InitList ==
    /\ SeedIdle
    /\ ClassifyIdle
    /\ PidIdle
    /\ decodeReq = NoDecode
    /\ decodeRes = <<>>
    /\ StoreIdle
    /\ HttpIdle
    /\ RecIdle
    /\ RaceIdle
    /\ moduleRows \in SUBSET ListModuleUniverse
    /\ bitRows = {}
    /\ listReq \in ListRequests
    /\ listRes = <<>>

ListModules ==
    /\ listRes = <<>>
    /\ listRes' = <<get_modules_for_manufacturer(listReq.manufacturer, listReq.platform)>>
    /\ UNCHANGED <<registryVars, decodeVars, pidVars, seedVars, classifyVars, listReq,
                   storeVars, callVars, httpVars, recVars, raceVars>>

NextList == ListModules

SpecList == InitList /\ [][NextList]_vars

(***************************************************************************)
(* Discovery reports, the coding history and decode calls on one store     *)
(* (report_discovered_module, save_coding_history, parse_coding_bytes)     *)
(***************************************************************************)
ModuleVinPrefixLen == 11

\* bug variant: the prefix rule of the PID side
module_vin_prefix_pid_rule(vin) == get_vin_prefix(vin)

\* vin[:11] if len(vin) >= 11 else vin
module_vin_prefix(vin) ==
    IF Len(vin) >= ModuleVinPrefixLen THEN SubSeq(vin, 1, ModuleVinPrefixLen) ELSE vin

\* the DiscoveredModule row of report_discovered_module
new_discovery(vin, manufacturer, module_address, is_present, coding_value) ==
    [vin |-> vin, vin_prefix |-> module_vin_prefix(vin), manufacturer |-> manufacturer,
     module_address |-> module_address, is_present |-> is_present,
     coding_value |-> coding_value]

\* report_discovered_module, one call from entry to return
ReportModule(vin, manufacturer, module_address, is_present, coding_value) ==
    /\ Len(discoveredModules) < MaxDiscoveries
    /\ discoveredModules' =
          Append(discoveredModules,
                 new_discovery(vin, manufacturer, module_address, is_present, coding_value))
    /\ discCall' = <<[vin |-> vin, manufacturer |-> manufacturer,
                      module_address |-> module_address, is_present |-> is_present,
                      coding_value |-> coding_value,
                      result |-> [success |-> TRUE,
                                  vinPrefix |-> module_vin_prefix(vin),
                                  moduleAddress |-> module_address]]>>
    /\ UNCHANGED <<registryVars, decodeVars, pidVars, seedVars, classifyVars, listVars,
                   httpVars, recVars, raceVars, codingHistory, calls, histCall>>

\* bug variant: the two coding values change places
new_history_swapped(h) ==
    [user_id |-> h.user_id, vehicle_id |-> h.vehicle_id, manufacturer |-> h.manufacturer,
     module_address |-> h.module_address, coding_before |-> h.coding_after,
     coding_after |-> h.coding_before, changes |-> h.changes,
     reverted |-> FALSE, reverted_at |-> NULL]

\* the CodingHistory row of save_coding_history for the arguments h; reverted
\* and reverted_at take the column defaults
new_history(h) ==
    [user_id |-> h.user_id, vehicle_id |-> h.vehicle_id, manufacturer |-> h.manufacturer,
     module_address |-> h.module_address, coding_before |-> h.coding_before,
     coding_after |-> h.coding_after, changes |-> h.changes,
     reverted |-> FALSE, reverted_at |-> NULL]

\* save_coding_history with arguments h, one call from entry to return; the id
\* of the new row is its position in the table
SaveHistory(h) ==
    /\ Len(codingHistory) < MaxHistory
    /\ codingHistory' = Append(codingHistory, new_history(h))
    /\ histCall' = <<[coding_before |-> h.coding_before, coding_after |-> h.coding_after,
                      changes |-> h.changes,
                      result |-> [id |-> Len(codingHistory) + 1,
                                  moduleAddress |-> h.module_address,
                                  codingBefore |-> h.coding_before,
                                  codingAfter |-> h.coding_after]]>>
    /\ UNCHANGED <<registryVars, decodeVars, pidVars, seedVars, classifyVars, listVars,
                   httpVars, recVars, raceVars, discoveredModules, calls, discCall>>

\* bug variant: the decoded value is filed as a discovery
DecodeCall_recording(c, req) ==
    /\ calls[c].pc = "idle"
    /\ calls' = [calls EXCEPT ![c] =
                    [pc  |-> "done", req |-> req,
                     res |-> <<parse_coding_bytes(req.manufacturer, req.module_address,
                                                  req.raw_bytes, req.platform)>>]]
    /\ discoveredModules' =
          Append(discoveredModules,
                 new_discovery(<<>>, req.manufacturer, req.module_address, TRUE, NULL))
    /\ UNCHANGED <<registryVars, decodeVars, pidVars, seedVars, classifyVars, listVars,
                   httpVars, recVars, raceVars, codingHistory, discCall, histCall>>

\* parse_coding_bytes called by client c, from entry to return: one read-only
\* session, then computation on the rows read
DecodeCall(c, req) ==
    /\ calls[c].pc = "idle"
    /\ calls' = [calls EXCEPT ![c] =
                    [pc  |-> "done", req |-> req,
                     res |-> <<parse_coding_bytes(req.manufacturer, req.module_address,
                                                  req.raw_bytes, req.platform)>>]]
    /\ UNCHANGED <<registryVars, decodeVars, pidVars, seedVars, classifyVars, listVars,
                   httpVars, recVars, raceVars, storeVars, discCall, histCall>>

\* VINs of the module reports: shorter than 11 characters, exactly 11, and a
\* full VIN in lower case
DiscoveryVins ==
    {<<"W","A","U","Z","Z","Z","8">>,
     <<"W","A","U","Z","Z","Z","8","K","9","E","A">>,
     <<"w","a","u","z","z","z","8","k","9","e","a","1","2","3","4","5","6">>}

DiscoveryInputs ==
    [vin : DiscoveryVins, manufacturer : {"VAG"}, module_address : {"17"},
     is_present : {TRUE}, coding_value : {NULL, "0B04"}]

\* the optional list "changes": <<>> for None, <<list>> for a list
HistoryChanges ==
    {<<>>, <<<<[bit |-> "Needle Sweep", from |-> FALSE, to |-> TRUE]>>>>}

HistoryInputs ==
    [user_id : {"u1"}, vehicle_id : {"v1"}, manufacturer : {"VAG"},
     module_address : {"17"}, coding_before : {"0B04"}, coding_after : {"0F04"},
     changes : HistoryChanges]

StoreRawHex == {<<"0", "b", "0", "0">>, <<"0", "Z">>}

StoreDecodeRequests ==
    [manufacturer : {"VAG"}, module_address : {"17"}, raw_bytes : StoreRawHex,
     platform : {NULL, "MQB"}]

\* a profile accumulated before the behaviour begins
StoreProfiles ==
    new_profiles(<<"W","A","U","Z","Z","Z","8","K">>, "VAG",
                 <<<<"b","o","o","s","t","_","s","t","d","_","7","0">>>>, <<>>)

InitStore ==
    /\ SeedIdle
    /\ ClassifyIdle
    /\ ServiceIdle
    /\ decodeReq = NoDecode
    /\ decodeRes = <<>>
    /\ moduleRows = DecodeModuleRows
    /\ bitRows \in {{}, DecodeBitUniverse}
    /\ pidProfiles \in {{}, StoreProfiles}
    /\ discoveredPids = EmptyBag
    /\ reports = 0
    /\ reportRes = <<>>

NextStore ==
    \/ \E c \in Clients, req \in StoreDecodeRequests : DecodeCall(c, req)
    \/ \E d \in DiscoveryInputs :
          ReportModule(d.vin, d.manufacturer, d.module_address, d.is_present,
                       d.coding_value)
    \/ \E h \in HistoryInputs : SaveHistory(h)

SpecStore == InitStore /\ [][NextStore]_vars

(***************************************************************************)
(* The endpoint POST modules/parse-coding (routes/modules.py parse_coding) *)
(***************************************************************************)
\* the members of the enum ManufacturerGroup with their values
ManufacturerGroupMembers ==
    <<[value |-> <<"V","A","G">>, member |-> "VAG"],
      [value |-> <<"B","M","W">>, member |-> "BMW"],
      [value |-> <<"T","O","Y","O","T","A">>, member |-> "TOYOTA"],
      [value |-> <<"G","M">>, member |-> "GM"],
      [value |-> <<"F","O","R","D">>, member |-> "FORD"],
      [value |-> <<"S","T","E","L","L","A","N","T","I","S">>, member |-> "STELLANTIS"],
      [value |-> <<"H","O","N","D","A">>, member |-> "HONDA"],
      [value |-> <<"N","I","S","S","A","N">>, member |-> "NISSAN"],
      [value |-> <<"H","Y","U","N","D","A","I">>, member |-> "HYUNDAI"],
      [value |-> <<"M","E","R","C","E","D","E","S">>, member |-> "MERCEDES"],
      [value |-> <<"G","E","N","E","R","I","C">>, member |-> "GENERIC"]>>

\* ManufacturerGroup(value): the member of that value, or ValueError
ManufacturerGroup(value) ==
    LET hits == {i \in 1..Len(ManufacturerGroupMembers) :
                    ManufacturerGroupMembers[i].value = value}
    IN  IF hits = {} THEN [ok |-> FALSE, member |-> NULL]
        ELSE [ok |-> TRUE, member |-> ManufacturerGroupMembers[CHOOSE i \in hits : TRUE].member]

StatusBadRequest == 400
StatusOk == 200
StatusServerError == 500

error_response(status, message) == [status |-> status, body |-> [error |-> message]]

\* the status the result of parse_coding_bytes is sent with
result_status(result) == StatusOk

\* parse_coding for a POST request, from entry to the response
parse_coding(req) ==
    LET manufacturer_str == Upper(IF req.manufacturer.some THEN req.manufacturer.text
                                  ELSE <<>>)
        manufacturer == ManufacturerGroup(manufacturer_str)
        result == parse_coding_bytes(manufacturer.member, req.moduleAddress,
                                     req.rawBytes.text, req.platform)
    IN  IF ~req.json_ok
        THEN error_response(StatusBadRequest, "Invalid JSON body")
        ELSE IF req.moduleAddress = NULL \/ req.moduleAddress = ""
        THEN error_response(StatusBadRequest, "moduleAddress is required")
        ELSE IF ~req.rawBytes.some \/ req.rawBytes.text = <<>>
        THEN error_response(StatusBadRequest, "rawBytes is required")
        ELSE IF ~manufacturer.ok
        THEN error_response(StatusBadRequest, "Invalid manufacturer")
        ELSE IF result.exception # NULL
        THEN error_response(StatusServerError, result.exception)
        ELSE [status |-> result_status(result), body |-> result]

\* values of rawBytes in the request bodies: missing, empty, hex that parses
\* and hex that does not
RouteRawBytes ==
    {NoneStr, Str(<<>>), Str(<<"0", "b">>), Str(<<"0", "b", "0", "0">>),
     Str(<<"0", "Z">>), Str(<<"0">>), Str(<<"0", "b", " ", "0", "4">>)}

RouteManufacturers ==
    {NoneStr, Str(<<"v","a","g">>), Str(<<"V","A","G">>), Str(<<"B","M","W">>),
     Str(<<"X","Y","Z">>)}

RouteRequests ==
    [json_ok : BOOLEAN, manufacturer : RouteManufacturers, moduleAddress : {NULL, "", "17"},
     rawBytes : RouteRawBytes, platform : {NULL, "MQB"}]

InitRoute ==
    /\ SeedIdle
    /\ ClassifyIdle
    /\ PidIdle
    /\ ListIdle
    /\ StoreIdle
    /\ RecIdle
    /\ RaceIdle
    /\ decodeReq = NoDecode
    /\ decodeRes = <<>>
    /\ moduleRows = DecodeModuleRows
    /\ bitRows \in {{}, DecodeBitUniverse}
    /\ httpReq \in RouteRequests
    /\ httpRes = <<>>

ParseCoding ==
    /\ httpRes = <<>>
    /\ httpRes' = <<parse_coding(httpReq)>>
    /\ UNCHANGED <<registryVars, decodeVars, pidVars, seedVars, classifyVars, listVars,
                   storeVars, callVars, recVars, raceVars, httpReq>>

NextRoute == ParseCoding

SpecRoute == InitRoute /\ [][NextRoute]_vars

(***************************************************************************)
(* Recommended PIDs (get_pids_for_manufacturer, get_pid_profile,           *)
(* get_recommended_pids)                                                   *)
(***************************************************************************)
\* the dictionary built for one PIDRegistry row
pid_dict(p) == [id |-> p.pid_id, pid |-> p.pid, priority |-> p.priority]

\* the orders in which ORDER BY priority can deliver the rows S: rows of equal
\* priority come in any order
RECURSIVE priority_orders(_)
priority_orders(S) ==
    IF S = {} THEN {<<>>}
    ELSE UNION {{<<m>> \o rest : rest \in priority_orders(S \ {m})} :
                   m \in {a \in S : \A b \in S : a.priority <= b.priority}}

\* get_pids_for_manufacturer(manufacturer) without category and platform: the
\* lists it can return
get_pids_for_manufacturer(manufacturer) ==
    LET selected == {p \in pidRegistry :
                        /\ p.is_active = TRUE
                        /\ (p.manufacturer = manufacturer \/ p.manufacturer = "GENERIC")}
    IN  {[i \in 1..Len(q) |-> pid_dict(q[i])] : q \in priority_orders(selected)}

\* get_pid_profile: <<>> for None, else <<dictionary of the profile>>
get_pid_profile(vin, manufacturer) ==
    LET vin_prefix == get_vin_prefix(vin)
        found      == {p \in pidProfiles : p.vin_prefix = vin_prefix}
    IN  IF vin_prefix = <<>> \/ found = {} THEN <<>>
        ELSE LET profile == CHOOSE p \in found : TRUE
             IN  <<[vinPrefix   |-> profile.vin_prefix,
                    workingPIDs |-> profile.working_pids,
                    failedPIDs  |-> profile.failed_pids,
                    sampleCount |-> profile.sample_count,
                    confidence  |-> profile.confidence]>>

in_boost(p) == Contains(Lower(p.id), KwBoost) \/ p.pid \in {"70", "87", "6F"}
in_oil_temp(p) == Contains(Lower(p.id), KwOilTemp) \/ p.pid = "5C"
in_charge_air(p) == Contains(Lower(p.id), KwChargeAir) \/ p.pid = "77"

\* variant: the PIDs not known to work follow, the failed ones among them
prioritize_keep_failed(pids, working, failed) ==
    SelectSeq(pids, LAMBDA p : p.id \in working)
        \o SelectSeq(pids, LAMBDA p : p.id \notin working)

\* bug variant: the unknown PIDs come first
prioritize_unknown_first(pids, working, failed) ==
    SelectSeq(pids, LAMBDA p : p.id \notin working /\ p.id \notin failed)
        \o SelectSeq(pids, LAMBDA p : p.id \in working)

\* the inner function prioritize
prioritize(pids, working, failed) ==
    SelectSeq(pids, LAMBDA p : p.id \in working)
        \o SelectSeq(pids, LAMBDA p : p.id \notin working /\ p.id \notin failed)

\* the values get_recommended_pids can return
get_recommended_pids(vin, manufacturer) ==
    LET profile == get_pid_profile(vin, manufacturer)
        working == IF profile = <<>> THEN {} ELSE SeqToSet(profile[1].workingPIDs)
        failed  == IF profile = <<>> THEN {} ELSE SeqToSet(profile[1].failedPIDs)
        bucket(pids) == IF profile = <<>> THEN pids ELSE prioritize(pids, working, failed)
    IN  {[vinPrefix         |-> get_vin_prefix(vin),
          manufacturer      |-> manufacturer,
          profile           |-> profile,
          boostPIDs         |-> bucket(SelectSeq(all_pids, in_boost)),
          oilTempPIDs       |-> bucket(SelectSeq(all_pids, in_oil_temp)),
          chargeAirTempPIDs |-> bucket(SelectSeq(all_pids, in_charge_air)),
          allPIDs           |-> all_pids] :
            all_pids \in get_pids_for_manufacturer(manufacturer)}

\* rows of the default PID catalogue (seed_default_pids)
RecRegistryRows ==
    {[pid_id |-> <<"b","o","o","s","t","_","s","t","d","_","7","0">>,
      manufacturer |-> "GENERIC", pid |-> "70", priority |-> 1, is_active |-> TRUE],
     [pid_id |-> <<"b","o","o","s","t","_","s","t","d","_","8","7">>,
      manufacturer |-> "GENERIC", pid |-> "87", priority |-> 2, is_active |-> TRUE],
     [pid_id |-> <<"b","o","o","s","t","_","u","d","s","_","f","4","0","c">>,
      manufacturer |-> "VAG", pid |-> "F40C", priority |-> 3, is_active |-> TRUE],
     [pid_id |-> <<"o","i","l","_","t","e","m","p","_","s","t","d">>,
      manufacturer |-> "GENERIC", pid |-> "5C", priority |-> 1, is_active |-> TRUE],
     [pid_id |-> <<"o","i","l","_","t","e","m","p","_","u","d","s","_","v","a","g">>,
      manufacturer |-> "VAG", pid |-> "2268", priority |-> 2, is_active |-> TRUE],
     [pid_id |-> <<"c","h","a","r","g","e","_","a","i","r","_","t","e","m","p","_","s","t","d">>,
      manufacturer |-> "GENERIC", pid |-> "77", priority |-> 1, is_active |-> TRUE]}

\* PIDs the profiles of the initial states list as working or failed
RecProfilePids ==
    {<<"b","o","o","s","t","_","s","t","d","_","8","7">>,
     <<"b","o","o","s","t","_","u","d","s","_","f","4","0","c">>,
     <<"o","i","l","_","t","e","m","p","_","u","d","s","_","v","a","g">>}

\* profiles a first report can have created for the prefix WAUZZZ8K
RecProfiles ==
    LET lists == UNION {ListsOf(S) : S \in SUBSET RecProfilePids}
    IN  UNION {new_profiles(<<"W","A","U","Z","Z","Z","8","K">>, "VAG", w, f) :
                  w \in lists, f \in lists}

\* profiles two overlapping reports leave for the prefix: both read the profile
\* a first report made, one then names a PID as working, the other as failed
RecOverlapProfiles ==
    LET boost_87 == <<"b","o","o","s","t","_","s","t","d","_","8","7">>
        oil_uds  == <<"o","i","l","_","t","e","m","p","_","u","d","s","_","v","a","g">>
        first    == new_profiles(<<"W","A","U","Z","Z","Z","8","K">>, "VAG", <<boost_87>>, <<>>)
    IN  UNION {{write_columns(write_columns(b, b, u1), b, u2) :
                    u1 \in updated_profiles(b, <<oil_uds>>, <<>>),
                    u2 \in updated_profiles(b, <<>>, <<oil_uds>>)} : b \in first}

RecVins ==
    {<<>>,
     <<"w","a","u","z","z","z","8","k","9","e","a","1">>,
     <<"W","B","A","Z","Z","Z","8","K","9","E","A","1">>}

InitRecommend ==
    /\ SeedIdle
    /\ ClassifyIdle
    /\ ListIdle
    /\ StoreIdle
    /\ HttpIdle
    /\ RaceIdle
    /\ moduleRows = {}
    /\ bitRows = {}
    /\ decodeReq = NoDecode
    /\ decodeRes = <<>>
    /\ discoveredPids = EmptyBag
    /\ reports = 0
    /\ reportRes = <<>>
    /\ pidProfiles \in {{}} \cup {{p} : p \in RecProfiles \cup RecOverlapProfiles}
    /\ pidRegistry = RecRegistryRows
    /\ recReq \in [vin : RecVins, manufacturer : {"VAG", "GENERIC"}]
    /\ recRes = <<>>

Recommend ==
    /\ recRes = <<>>
    /\ \E result \in get_recommended_pids(recReq.vin, recReq.manufacturer) :
          recRes' = <<result>>
    /\ UNCHANGED <<registryVars, decodeVars, pidVars, seedVars, classifyVars, listVars,
                   storeVars, callVars, httpVars, raceVars, pidRegistry, recReq>>

NextRecommend == Recommend

SpecRecommend == InitRecommend /\ [][NextRecommend]_vars

(***************************************************************************)
(* Concurrent reports (report_discovered_pids run by two workers).  A call *)
(* is split where it talks to the database: the commit of its fact rows,   *)
(* the query for the profile, and the commit of the profile it built from  *)
(* the row the query returned.                                             *)
(***************************************************************************)
\* variant: the row is read again, under a lock, when the write is made
write_base_current(seen, current) == current

\* the row the new column values are computed from: the one the query returned
write_base(seen, current) == seen

\* lines 182-215: prefix check, fact rows, first commit
RaceBegin(w, args) ==
    /\ racePc[w] = "idle"
    /\ raceArgs' = [raceArgs EXCEPT ![w] = args]
    /\ LET vin_prefix == get_vin_prefix(args.vin)
       IN  IF vin_prefix = <<>>
           THEN /\ racePc' = [racePc EXCEPT ![w] = "done"]
                /\ raceRes' = [raceRes EXCEPT ![w] = <<[error |-> "Invalid VIN"]>>]
                /\ UNCHANGED discoveredPids
           ELSE /\ racePc' = [racePc EXCEPT ![w] = "read"]
                /\ discoveredPids' =
                      discoveredPids
                      (+) fact_rows(args.vin, vin_prefix, args.manufacturer,
                                    args.working_pids, TRUE)
                      (+) fact_rows(args.vin, vin_prefix, args.manufacturer,
                                    args.failed_pids, FALSE)
                /\ UNCHANGED raceRes
    /\ UNCHANGED <<registryVars, decodeVars, seedVars, classifyVars, listVars, storeVars,
                   callVars, httpVars, recVars, pidProfiles, reports, reportRes, raceSeen>>

\* lines 232-234: the query for the profile of the prefix
RaceRead(w) ==
    /\ racePc[w] = "read"
    /\ LET found == {r \in pidProfiles : r.vin_prefix = get_vin_prefix(raceArgs[w].vin)}
       IN  raceSeen' = [raceSeen EXCEPT ![w] =
                           IF found = {} THEN <<>> ELSE <<CHOOSE r \in found : TRUE>>]
    /\ racePc' = [racePc EXCEPT ![w] = "write"]
    /\ UNCHANGED <<registryVars, decodeVars, seedVars, classifyVars, listVars, storeVars,
                   callVars, httpVars, recVars, pidVars, raceArgs, raceRes>>

\* lines 236-292 and 217-222: the profile is built or changed in memory and
\* committed; pid_profiles.vin_prefix is unique
RaceWrite(w) ==
    /\ racePc[w] = "write"
    /\ LET args       == raceArgs[w]
           vin_prefix == get_vin_prefix(args.vin)
           current    == {r \in pidProfiles : r.vin_prefix = vin_prefix}
           ok         == [success |-> TRUE, vinPrefix |-> vin_prefix,
                          workingCount |-> Len(args.working_pids),
                          failedCount |-> Len(args.failed_pids)]
       IN  IF raceSeen[w] = <<>>
           THEN IF current # {}
                THEN /\ racePc' = [racePc EXCEPT ![w] = "failed"]
                     /\ raceRes' = [raceRes EXCEPT ![w] = <<[raised |-> "IntegrityError"]>>]
                     /\ UNCHANGED pidProfiles
                ELSE /\ \E r \in new_profiles(vin_prefix, args.manufacturer,
                                              args.working_pids, args.failed_pids) :
                            pidProfiles' = pidProfiles \cup {r}
                     /\ racePc' = [racePc EXCEPT ![w] = "done"]
                     /\ raceRes' = [raceRes EXCEPT ![w] = <<ok>>]
           ELSE LET row  == CHOOSE r \in current : TRUE
                    base == write_base(raceSeen[w][1], row)
                IN  /\ \E r \in updated_profiles(base, args.working_pids, args.failed_pids) :
                          pidProfiles' = (pidProfiles \ {row}) \cup {write_columns(row, base, r)}
                    /\ racePc' = [racePc EXCEPT ![w] = "done"]
                    /\ raceRes' = [raceRes EXCEPT ![w] = <<ok>>]
    /\ UNCHANGED <<registryVars, decodeVars, seedVars, classifyVars, listVars, storeVars,
                   callVars, httpVars, recVars, discoveredPids, reports, reportRes,
                   raceArgs, raceSeen>>

RacePidA == <<"b","o","o","s","t","_","s","t","d","_","7","0">>
RacePidB == <<"o","i","l","_","t","e","m","p","_","s","t","d">>
RacePidC == <<"c","h","a","r","g","e","_","a","i","r","_","t","e","m","p","_","s","t","d">>

\* the profile of prefix WAUZZZ8K before the behaviour begins
RaceProfiles ==
    new_profiles(<<"W","A","U","Z","Z","Z","8","K">>, "VAG", <<RacePidA>>, <<RacePidC>>)

RaceReports ==
    [vin : {<<"w","a","u","z","z","z","8","k","9","e","a","1">>,
            <<"W","A","U","Z","Z","Z","8">>},
     manufacturer : {"VAG"},
     working_pids : {<<>>, <<RacePidA>>, <<RacePidB>>, <<RacePidC>>},
     failed_pids : {<<>>, <<RacePidB>>}]

InitRace ==
    /\ SeedIdle
    /\ ClassifyIdle
    /\ ServiceIdle
    /\ moduleRows = {}
    /\ bitRows = {}
    /\ decodeReq = NoDecode
    /\ decodeRes = <<>>
    /\ pidProfiles \in {{}, RaceProfiles}
    /\ discoveredPids = EmptyBag
    /\ reports = 0
    /\ reportRes = <<>>

NextRace ==
    \E w \in Workers :
        \/ \E args \in RaceReports : RaceBegin(w, args)
        \/ RaceRead(w)
        \/ RaceWrite(w)

SpecRace == InitRace /\ [][NextRace]_vars



(***************************************************************************)
(* Properties of the decoder                                               *)
(***************************************************************************)
DecodeReturned == decodeRes # <<>>
DecodeResult == decodeRes[1]

\* the request's rawBytes with the spaces taken out
ReqRaw == SelectSeq(decodeReq.raw_bytes, LAMBDA c : c # " ")

MaxOf(S) == CHOOSE x \in S : \A y \in S : y <= x

\* length of the run of adjacent hex digits that ends at position i
DigitRunLen(s, i) == i - MaxOf({0} \cup {j \in 1..i : s[j] \notin HexDigits})

\* a string of two-digit octets with nothing but ASCII whitespace around them
WellFormedHex(s) ==
    /\ \A i \in 1..Len(s) : s[i] \in HexDigits \cup AsciiSpace
    /\ \A i \in 1..Len(s) :
          (s[i] \in HexDigits /\ (i = Len(s) \/ s[i + 1] \notin HexDigits))
              => DigitRunLen(s, i) % 2 = 0

\* the byte sequence B a well-formed string denotes
OctetsOf(s) ==
    LET d == SelectSeq(s, LAMBDA c : c \in HexDigits)
    IN  [i \in 1..(Len(d) \div 2) |-> 16 * HexVal(d[2 * i - 1]) + HexVal(d[2 * i])]

ReqBytes == OctetsOf(ReqRaw)

\* bit n (0 = least significant) of v is 1
BitSet(v, n) == (v % Pow2(n + 1)) >= Pow2(n)

\* the registry rows the request selects
RowsOfRequest ==
    {b \in bitRows :
        /\ b.manufacturer = decodeReq.manufacturer
        /\ b.module_address = decodeReq.module_address
        /\ (decodeReq.platform = NULL \/ b.platforms.null
               \/ decodeReq.platform \in b.platforms.items)}

\* C1: when rawHex parses to bytes B, every knownBits entry whose byte_index is
\* below len(B) has currentValue true exactly when bit bit_index (0 = least
\* significant) of B[byte_index] is 1.
C1_BitDecodeCorrect ==
    (DecodeReturned /\ WellFormedHex(ReqRaw)) =>
        \A i \in 1..Len(DecodeResult.knownBits) :
            LET kb == DecodeResult.knownBits[i]
            IN  kb.byteIndex < Len(ReqBytes) =>
                    (kb.currentValue = BitSet(ReqBytes[kb.byteIndex + 1], kb.bitIndex))

C1_Witness ==
    /\ DecodeReturned /\ WellFormedHex(ReqRaw) /\ Len(ReqBytes) = 2
    /\ \E i, j \in 1..Len(DecodeResult.knownBits) :
          /\ DecodeResult.knownBits[i].byteIndex = 0
          /\ DecodeResult.knownBits[i].bitIndex = 3
          /\ DecodeResult.knownBits[i].currentValue = TRUE
          /\ DecodeResult.knownBits[j].byteIndex = 1
          /\ DecodeResult.knownBits[j].currentValue = FALSE

\* C2: when rawHex parses to bytes B, totalBits = 8 * len(B) and
\* unknownBitCount = totalBits - len(knownBits); with no definition in the
\* registry for the module, knownBits is empty and unknownBitCount = totalBits.
C2_BitCount ==
    (DecodeReturned /\ WellFormedHex(ReqRaw)) =>
        /\ DecodeResult.totalBits = 8 * Len(ReqBytes)
        /\ DecodeResult.unknownBitCount
              = DecodeResult.totalBits - Len(DecodeResult.knownBits)
        /\ (\A b \in bitRows : b.module_address # decodeReq.module_address) =>
              /\ DecodeResult.knownBits = <<>>
              /\ DecodeResult.unknownBitCount = DecodeResult.totalBits

C2_Witness ==
    /\ DecodeReturned /\ WellFormedHex(ReqRaw) /\ Len(ReqBytes) = 2
    /\ \A b \in bitRows : b.module_address # decodeReq.module_address
    /\ bitRows # {}
    /\ DecodeResult.unknownBitCount = 16

\* C3: in a decode call that parses, a definition whose byte_index is at or
\* beyond the number of parsed bytes is in knownBits with currentValue false,
\* and the call returns without an exception, however large the index.
C3_OutOfRangeFalse ==
    (DecodeReturned /\ WellFormedHex(ReqRaw)) =>
        /\ DecodeResult.exception = NULL
        /\ \A b \in RowsOfRequest :
              b.byte_index >= Len(ReqBytes) =>
                \E i \in 1..Len(DecodeResult.knownBits) :
                    /\ DecodeResult.knownBits[i].byteIndex = b.byte_index
                    /\ DecodeResult.knownBits[i].bitIndex = b.bit_index
                    /\ DecodeResult.knownBits[i].currentValue = FALSE

C3_Witness ==
    /\ DecodeReturned /\ WellFormedHex(ReqRaw) /\ Len(ReqBytes) = 1
    /\ \E b1, b3 \in RowsOfRequest : b1.byte_index = 1 /\ b3.byte_index = 3
    /\ \A i \in 1..Len(DecodeResult.knownBits) :
          DecodeResult.knownBits[i].byteIndex >= 1
              => DecodeResult.knownBits[i].currentValue = FALSE

UpperHexDigits == {"0","1","2","3","4","5","6","7","8","9","A","B","C","D","E","F"}

\* C4 as stated: a rawHex that, with spaces removed and uppercased, has odd
\* length or a character that is no hex digit yields the error result.
C4_Original ==
    LET norm == Upper(ReqRaw)
    IN  (DecodeReturned /\ (Len(norm) % 2 = 1
                               \/ \E i \in 1..Len(norm) : norm[i] \notin UpperHexDigits)) =>
            /\ DecodeResult.error # NULL
            /\ DecodeResult.knownBits = <<>>

\* C4 (amended): a rawHex that, with spaces removed, is not a string of
\* two-digit hex octets separated only by ASCII whitespace is answered by a
\* returned result with error set and knownBits empty, whatever the registry
\* holds for the module.
C4_MalformedHexReported ==
    (DecodeReturned /\ ~WellFormedHex(ReqRaw)) =>
        /\ DecodeResult.exception = NULL
        /\ DecodeResult.error = "Invalid hex format"
        /\ DecodeResult.knownBits = <<>>

C4_Witness ==
    /\ DecodeReturned /\ ~WellFormedHex(ReqRaw)
    /\ Len(ReqRaw) = 3
    /\ RowsOfRequest # {}
    /\ DecodeResult.error = "Invalid hex format"
    /\ DecodeResult.knownBits = <<>>

(***************************************************************************)
(* Properties of the seed                                                  *)
(***************************************************************************)
ModuleRowsOf(m) == {r \in moduleRows : r.manufacturer = "VAG" /\ r.address = m.address}

BitRowsOf(b) ==
    {r \in bitRows : /\ r.manufacturer = "VAG" /\ r.module_address = b.module
                     /\ r.byte_index = b.byte /\ r.bit_index = b.bit}

\* C6: a seed run on a registry that already holds every seeded identity adds
\* no row (the module and coding-bit row counts are unchanged), ends without a
\* failure, and leaves exactly one row per seeded identity, whose name, long
\* name, CAN id, coding-support flag and priority are the seed values.
C6_ReseedIdempotent ==
    \A p \in SeedProcs :
        seedStart[p].seeded =>
            /\ seedPc[p] # "failed"
            /\ seedPc[p] = "done" =>
                  /\ Cardinality(moduleRows) = seedStart[p].modules
                  /\ Cardinality(bitRows) = seedStart[p].bits
                  /\ \A i \in 1..Len(vag_modules) :
                        /\ Cardinality(ModuleRowsOf(vag_modules[i])) = 1
                        /\ \A r \in ModuleRowsOf(vag_modules[i]) :
                              /\ r.name = vag_modules[i].name
                              /\ r.long_name = vag_modules[i].long_name
                              /\ r.can_id = vag_modules[i].can_id
                              /\ r.coding_supported = vag_modules[i].coding_supported
                              /\ r.priority = vag_modules[i].priority
                  /\ \A i \in 1..Len(coding_bits) :
                        Cardinality(BitRowsOf(coding_bits[i])) = 1

\* a seed finished on a registry that held every identity, with other values,
\* when it began
C6_Witness ==
    \E p \in SeedProcs :
        /\ seedStart[p].seeded
        /\ seedPc[p] = "done"
        /\ \E r \in moduleRows : r.id = <<"init", "mod", 1>> /\ r.name = vag_modules[1].name
        /\ Cardinality(moduleRows) = Len(vag_modules)

\* C7: in every reachable state, also while seed requests interleave, the
\* module registry has at most one row per (manufacturer, address) and the
\* coding-bit registry at most one row per (manufacturer, module_address,
\* byte_index, bit_index).
C7_RegistryKeysUnique ==
    /\ \A r1, r2 \in moduleRows :
          (r1.manufacturer = r2.manufacturer /\ r1.address = r2.address) => r1 = r2
    /\ \A r1, r2 \in bitRows :
          (/\ r1.manufacturer = r2.manufacturer
           /\ r1.module_address = r2.module_address
           /\ r1.byte_index = r2.byte_index
           /\ r1.bit_index = r2.bit_index) => r1 = r2

\* two requests ran against an empty module registry at once: one committed its
\* rows, the other was stopped on the same key
C7_Witness ==
    \E p, q \in SeedProcs :
        /\ seedStart[p].modules = 0 /\ seedStart[q].modules = 0
        /\ seedPc[p] = "done"
        /\ seedOutcome[q] = "IntegrityError"
        /\ Cardinality(moduleRows) = Len(vag_modules)

\* C8: when two seed requests run at once, neither ends in a duplicate-key
\* failure reported to its caller, whatever the interleaving of their
\* existence checks and inserts.
C8_NoDuplicateKeyFailure ==
    \A p \in SeedProcs : seedOutcome[p] # "IntegrityError" /\ seedPc[p] # "failed"

(***************************************************************************)
(* Properties of the PID accumulator                                       *)
(***************************************************************************)
Facts == BagToSet(discoveredPids)

\* C5: after any sequence of reports for a VIN prefix, made one after another,
\* every PID some report listed as working is in the profile's working_pids and
\* not in its failed_pids, whether or not other reports listed it as failed.
C5_WorkingSticky ==
    \A p \in pidProfiles : \A f \in Facts :
        (f.vin_prefix = p.vin_prefix /\ f.success) =>
            /\ f.pid_id \in SeqToSet(p.working_pids)
            /\ f.pid_id \notin SeqToSet(p.failed_pids)

\* a PID reported failed by the first report and working by the second, alone
C5_Witness ==
    /\ reports = 2
    /\ reportRes # <<>>
    /\ "success" \in DOMAIN reportRes[1]
    /\ reportRes[1].workingCount = 1
    /\ reportRes[1].failedCount = 0
    /\ \E p \in pidProfiles : \E fw, ff \in Facts :
          /\ p.vin_prefix = reportRes[1].vinPrefix
          /\ p.sample_count = 2
          /\ fw.vin_prefix = p.vin_prefix /\ ff.vin_prefix = p.vin_prefix
          /\ fw.pid_id = ff.pid_id /\ fw.success /\ ~ff.success
          /\ fw.pid_id \in SeqToSet(p.working_pids)
          /\ p.failed_pids = <<>>

\* the step function of the confidence, in hundredths
StepConfidence(n) ==
    CASE n >= 10 -> 95
      [] n >= 5 /\ n <= 9 -> 85
      [] n \in {3, 4} -> 75
      [] n = 2 -> 70
      [] n = 1 -> 60

\* C9: in every reachable state the stored confidence of each profile is the
\* step function of its sample_count (1 gives 0.6, 2 gives 0.7, 3 and 4 give
\* 0.75, 5 to 9 give 0.85, 10 or more give 0.95).
C9_ConfidenceIsStepOfCount ==
    \A p \in pidProfiles :
        p.sample_count >= 1 /\ p.confidence = StepConfidence(p.sample_count)


(***************************************************************************)
(* Properties of the manufacturer classifier                               *)
(***************************************************************************)
Classified == classifyRes # <<>>

\* the fixed order in which the groups are tried
FixedGroupOrder ==
    <<"VAG", "BMW", "TOYOTA", "GM", "FORD", "STELLANTIS", "HONDA", "NISSAN", "HYUNDAI",
      "MERCEDES">>

BrandsOf(group) ==
    CASE group = "VAG" -> VAG_MAKES
      [] group = "BMW" -> BMW_MAKES
      [] group = "TOYOTA" -> TOYOTA_MAKES
      [] group = "GM" -> GM_MAKES
      [] group = "FORD" -> FORD_MAKES
      [] group = "STELLANTIS" -> STELLANTIS_MAKES
      [] group = "HONDA" -> HONDA_MAKES
      [] group = "NISSAN" -> NISSAN_MAKES
      [] group = "HYUNDAI" -> HYUNDAI_MAKES
      [] group = "MERCEDES" -> MERCEDES_MAKES

\* the lowercased, trimmed make of the call
NormalizedMake == Strip(Lower(classifyReq.text))

\* positions in the fixed order of the groups one of whose brands occurs in the make
MatchingGroups ==
    {k \in 1..Len(FixedGroupOrder) :
        \E i \in 1..Len(BrandsOf(FixedGroupOrder[k])) :
            Contains(NormalizedMake, BrandsOf(FixedGroupOrder[k])[i])}

\* C10: get_manufacturer_group returns the first group, in the order VAG, BMW, TOYOTA,
\* GM, FORD, STELLANTIS, HONDA, NISSAN, HYUNDAI, MERCEDES, one of whose brand substrings
\* occurs in the lowercased, trimmed make; it returns GENERIC when no group matches and
\* when the make is empty or missing.
C10_FirstMatchInFixedOrder ==
    Classified =>
        classifyRes[1] =
            IF ~classifyReq.some \/ classifyReq.text = <<>> \/ MatchingGroups = {}
            THEN "GENERIC"
            ELSE FixedGroupOrder[CHOOSE k \in MatchingGroups :
                                    \A j \in MatchingGroups : k <= j]

\* a make in which brands of two groups occur has been classified as the earlier group
C10_Witness ==
    /\ Classified
    /\ classifyReq.some
    /\ {1, 2} \subseteq MatchingGroups
    /\ classifyRes[1] = "VAG"

(***************************************************************************)
(* Properties of the module listing                                        *)
(***************************************************************************)
Listed == listRes # <<>>
ListResult == listRes[1]
PlatformGiven == listReq.platform # NULL /\ listReq.platform # ""

\* the registry rows of the requested manufacturer that are switched on
ActiveRows == {m \in moduleRows : m.manufacturer = listReq.manufacturer /\ m.is_active}

\* the row a returned dictionary was built from
RowOfEntry(d) == CHOOSE m \in ActiveRows : m.address = d.address

ListedAddresses == {ListResult[i].address : i \in 1..Len(ListResult)}

\* C11: get_modules_for_manufacturer returns the active rows of the manufacturer, each
\* once (all of them without a platform; with a platform all those whose platform list
\* contains it and none whose platform list lacks it), ordered by priority ascending and
\* by address ascending among equal priorities; an inactive row is never returned.
C11_ActiveRowsInOrder ==
    Listed =>
        /\ ListedAddresses \subseteq {m.address : m \in ActiveRows}
        /\ \A i, j \in 1..Len(ListResult) :
              i < j => ListResult[i].address # ListResult[j].address
        /\ \A m \in ActiveRows :
              /\ ~PlatformGiven => m.address \in ListedAddresses
              /\ PlatformGiven /\ ~m.platforms.null =>
                    (m.address \in ListedAddresses <=> listReq.platform \in m.platforms.items)
        /\ \A i \in 1..Len(ListResult) :
              /\ ListResult[i].name = RowOfEntry(ListResult[i]).name
              /\ ListResult[i].canId = RowOfEntry(ListResult[i]).can_id
        /\ \A i, j \in 1..Len(ListResult) :
              i < j =>
                 LET a == RowOfEntry(ListResult[i])
                     b == RowOfEntry(ListResult[j])
                 IN  \/ a.priority < b.priority
                     \/ /\ a.priority = b.priority
                        /\ AddressRank(a.address) < AddressRank(b.address)

\* a listing of two rows of equal priority and a third one, from a registry that also
\* holds an inactive row of the manufacturer
C11_Witness ==
    /\ Listed
    /\ Len(ListResult) >= 3
    /\ \E i, j \in 1..Len(ListResult) :
          i # j /\ RowOfEntry(ListResult[i]).priority = RowOfEntry(ListResult[j]).priority
    /\ \E m \in moduleRows : m.manufacturer = listReq.manufacturer /\ ~m.is_active

\* C12: with a platform given, every active row of the manufacturer that has no platform
\* restriction is part of the listing.
C12_UnrestrictedRowsIncluded ==
    Listed /\ PlatformGiven =>
        \A m \in ActiveRows : m.platforms.null => m.address \in ListedAddresses

(***************************************************************************)
(* Properties of the coding-bit query                                      *)
(***************************************************************************)
\* what get_coding_bits_for_module returns for the request of the state
QueriedBits ==
    get_coding_bits_for_module(decodeReq.manufacturer, decodeReq.module_address,
                               decodeReq.platform).bits

Location(d) == <<d.byteIndex, d.bitIndex>>

\* C13: get_coding_bits_for_module returns the module's definitions ordered by
\* byte_index, then bit_index; with a platform it keeps the definitions without a
\* platform restriction and those whose platform list contains the platform and drops
\* the others; the knownBits of a decode follow the same selection and order.
C13_BitsSelectedAndOrdered ==
    /\ {Location(QueriedBits[i]) : i \in 1..Len(QueriedBits)}
          = {<<b.byte_index, b.bit_index>> : b \in RowsOfRequest}
    /\ Len(QueriedBits) = Cardinality(RowsOfRequest)
    /\ \A i, j \in 1..Len(QueriedBits) :
          i < j => \/ QueriedBits[i].byteIndex < QueriedBits[j].byteIndex
                   \/ /\ QueriedBits[i].byteIndex = QueriedBits[j].byteIndex
                      /\ QueriedBits[i].bitIndex < QueriedBits[j].bitIndex
    /\ (DecodeReturned /\ DecodeResult.error = NULL) =>
          /\ Len(DecodeResult.knownBits) = Len(QueriedBits)
          /\ \A i \in 1..Len(QueriedBits) :
                /\ Location(DecodeResult.knownBits[i]) = Location(QueriedBits[i])
                /\ DecodeResult.knownBits[i].name = QueriedBits[i].name

\* a decode for platform MQB on a registry holding, for the module, definitions without
\* restriction, one listing MQB and one listing another platform only
C13_Witness ==
    /\ DecodeReturned /\ DecodeResult.error = NULL
    /\ decodeReq.platform = "MQB"
    /\ Len(DecodeResult.knownBits) = 3
    /\ \E b \in bitRows :
          /\ b.module_address = decodeReq.module_address
          /\ ~b.platforms.null /\ "MQB" \notin b.platforms.items
    /\ \E b \in RowsOfRequest : ~b.platforms.null
    /\ \E b \in RowsOfRequest : b.platforms.null

(***************************************************************************)
(* Properties of the profile key                                           *)
(***************************************************************************)
\* the first 11 characters of a VIN (all of it when it is shorter)
First11(vin) == SubSeq(vin, 1, IF Len(vin) < 11 THEN Len(vin) ELSE 11)

\* C14: profiles are keyed by the first 11 characters of the VIN: two reports fall under
\* the same profile key exactly when their VINs agree on the first 11 characters.
C14_KeyedByFirst11 ==
    \A f, g \in Facts :
        (f.vin_prefix = g.vin_prefix) <=> (First11(f.vin) = First11(g.vin))

(***************************************************************************)
(* Properties of the discovery rows, the coding history and the decode     *)
(* calls on one store                                                      *)
(***************************************************************************)
\* every row of the table before the step is the same row after it
KeepsRows(table, tableAfter) ==
    /\ Len(tableAfter) >= Len(table)
    /\ \A i \in 1..Len(table) : tableAfter[i] = table[i]

\* C15: report_discovered_module stores vin_prefix = the first 11 characters of vin (the
\* whole vin when it is shorter), adds exactly one DiscoveredModule row and leaves the
\* earlier discovery rows, the registries and the PID profiles unchanged; no step of any
\* operation changes or removes a discovery row.
C15_ReportAddsOneRow ==
    [][/\ KeepsRows(discoveredModules, discoveredModules')
       /\ discCall' # discCall => discoveredModules' # discoveredModules
       /\ discoveredModules' # discoveredModules =>
             /\ Len(discoveredModules') = Len(discoveredModules) + 1
             /\ discCall' # <<>>
             /\ LET row  == discoveredModules'[Len(discoveredModules')]
                    call == discCall'[1]
                IN  /\ row.vin = call.vin
                    /\ row.module_address = call.module_address
                    /\ row.vin_prefix = First11(call.vin)
                    /\ call.result.vinPrefix = First11(call.vin)
             /\ UNCHANGED <<moduleRows, bitRows, pidProfiles, discoveredPids, codingHistory>>
      ]_vars

\* two reports stored, of a VIN shorter than 11 characters and of a longer one, next
\* to registry rows and a PID profile
C15_Witness ==
    /\ Len(discoveredModules) = 2
    /\ Len(discoveredModules[1].vin) < 11
    /\ discoveredModules[1].vin_prefix = discoveredModules[1].vin
    /\ Len(discoveredModules[2].vin) > 11
    /\ Len(discoveredModules[2].vin_prefix) = 11
    /\ bitRows # {}
    /\ pidProfiles # {}

\* no entry of the ledger is marked reverted
HistoryNeverReverted ==
    \A i \in 1..Len(codingHistory) :
        codingHistory[i].reverted = FALSE /\ codingHistory[i].reverted_at = NULL

\* C16: the coding history is append-only: save_coding_history adds exactly one entry
\* that carries the given coding_before, coding_after and changes as they were given, no
\* step changes or removes an entry, and every entry has reverted = false and
\* reverted_at unset in every reachable state.
C16_HistoryAppendOnly ==
    /\ []HistoryNeverReverted
    /\ [][/\ KeepsRows(codingHistory, codingHistory')
          /\ histCall' # histCall => codingHistory' # codingHistory
          /\ codingHistory' # codingHistory =>
                /\ Len(codingHistory') = Len(codingHistory) + 1
                /\ histCall' # <<>>
                /\ LET row  == codingHistory'[Len(codingHistory')]
                       call == histCall'[1]
                   IN  /\ row.coding_before = call.coding_before
                       /\ row.coding_after = call.coding_after
                       /\ row.changes = call.changes
                       /\ call.result.codingBefore = call.coding_before
                       /\ call.result.codingAfter = call.coding_after
         ]_vars

\* two entries saved, one without and one with a list of changes
C16_Witness ==
    /\ Len(codingHistory) = 2
    /\ codingHistory[1].changes = <<>>
    /\ codingHistory[2].changes # <<>>
    /\ codingHistory[2].coding_before = "0B04"
    /\ codingHistory[2].coding_after = "0F04"

\* C17: a decode call changes no stored state: the registries, the discovery rows, the
\* PID profiles and the coding history are the same after the call as before, for valid
\* and invalid rawHex and however the decode calls of several clients interleave with
\* each other and with the writing operations.
C17_DecodeChangesNothing ==
    [][calls' # calls =>
          UNCHANGED <<moduleRows, bitRows, discoveredModules, codingHistory, pidProfiles,
                      discoveredPids>>]_vars

\* both clients have decoded, one a rawHex that parses and one that does not, on a store
\* that holds registry rows, a discovery row, a history entry and a profile
C17_Witness ==
    /\ \A c \in Clients : calls[c].pc = "done"
    /\ \E c, d \in Clients :
          /\ calls[c].res[1].error = NULL /\ calls[c].res[1].knownBits # <<>>
          /\ calls[d].res[1].error # NULL
    /\ discoveredModules # <<>>
    /\ codingHistory # <<>>
    /\ bitRows # {}
    /\ pidProfiles # {}

(***************************************************************************)
(* Properties of the endpoint POST modules/parse-coding                    *)
(***************************************************************************)
Answered == httpRes # <<>>

\* what makes a request malformed: no moduleAddress, no rawBytes, a manufacturer
\* string that names no group, or rawBytes that is not valid hex
MalformedRequest ==
    \/ httpReq.moduleAddress \in {NULL, ""}
    \/ ~httpReq.rawBytes.some
    \/ httpReq.rawBytes.text = <<>>
    \/ ~httpReq.manufacturer.some
    \/ Upper(httpReq.manufacturer.text) \notin
          {ManufacturerGroupMembers[i].value : i \in 1..Len(ManufacturerGroupMembers)}
    \/ ~WellFormedHex(httpReq.rawBytes.text)

\* C18: every malformed request to POST modules/parse-coding (missing moduleAddress,
\* missing rawBytes, unknown manufacturer string, rawBytes that is not valid hex) is
\* answered with an error payload and a 4xx status.
C18_MalformedAnswered4xx ==
    (Answered /\ httpReq.json_ok /\ MalformedRequest) =>
        /\ httpRes[1].status >= 400 /\ httpRes[1].status <= 499
        /\ httpRes[1].body.error # NULL

(***************************************************************************)
(* Properties of the recommended PIDs                                      *)
(***************************************************************************)
Recommended == recRes # <<>>
RecResult == recRes[1]
ProfileFound == RecResult.profile # <<>>
WorkingOfProfile == SeqToSet(RecResult.profile[1].workingPIDs)
FailedOfProfile == SeqToSet(RecResult.profile[1].failedPIDs)

\* the registry PIDs on offer for the requested manufacturer, as dictionaries
RegistryPids ==
    {pid_dict(p) : p \in {r \in pidRegistry :
                            /\ r.is_active
                            /\ r.manufacturer \in {recReq.manufacturer, "GENERIC"}}}

IdsOf(list) == {list[i].id : i \in 1..Len(list)}

PositionIn(list, id) == CHOOSE i \in 1..Len(list) : list[i].id = id

\* the list has no PID twice, puts every working PID before every other PID, and within
\* the working PIDs and within the others follows the order of allPIDs, which is
\* ascending in priority
WorkingFirstInRegistryOrder(list) ==
    /\ \A i, j \in 1..Len(list) : i < j => list[i].id # list[j].id
    /\ \A i, j \in 1..Len(list) :
          (i < j /\ list[j].id \in WorkingOfProfile) => list[i].id \in WorkingOfProfile
    /\ \A i, j \in 1..Len(list) :
          (i < j /\ (list[i].id \in WorkingOfProfile <=> list[j].id \in WorkingOfProfile))
              => PositionIn(RecResult.allPIDs, list[i].id)
                    < PositionIn(RecResult.allPIDs, list[j].id)
    /\ \A i, j \in 1..Len(RecResult.allPIDs) :
          i < j => RecResult.allPIDs[i].priority <= RecResult.allPIDs[j].priority

\* C19 as stated: with a profile for the VIN, each bucket lists every registry PID of
\* the bucket, working PIDs first, each group in registry priority order.
C19_Original ==
    (Recommended /\ ProfileFound) =>
        /\ IdsOf(RecResult.boostPIDs) = {p.id : p \in {r \in RegistryPids : in_boost(r)}}
        /\ IdsOf(RecResult.oilTempPIDs) = {p.id : p \in {r \in RegistryPids : in_oil_temp(r)}}
        /\ IdsOf(RecResult.chargeAirTempPIDs)
              = {p.id : p \in {r \in RegistryPids : in_charge_air(r)}}
        /\ WorkingFirstInRegistryOrder(RecResult.boostPIDs)
        /\ WorkingFirstInRegistryOrder(RecResult.oilTempPIDs)
        /\ WorkingFirstInRegistryOrder(RecResult.chargeAirTempPIDs)

\* the registry PIDs a bucket shows: those of the bucket that are in the working set or
\* not in the failed set
Shown(S) == {p.id : p \in {r \in S : r.id \in WorkingOfProfile \/ r.id \notin FailedOfProfile}}

\* C19 (amended): with a profile for the VIN, each of the boost, oil-temp and
\* charge-air-temp buckets lists every registry PID of the bucket except those that are
\* in the profile's failed set and not in its working set, with all PIDs of the working
\* set before all others, each group in registry priority order.
C19_BucketsWorkingFirst ==
    (Recommended /\ ProfileFound) =>
        /\ IdsOf(RecResult.boostPIDs) = Shown({r \in RegistryPids : in_boost(r)})
        /\ IdsOf(RecResult.oilTempPIDs) = Shown({r \in RegistryPids : in_oil_temp(r)})
        /\ IdsOf(RecResult.chargeAirTempPIDs) = Shown({r \in RegistryPids : in_charge_air(r)})
        /\ WorkingFirstInRegistryOrder(RecResult.boostPIDs)
        /\ WorkingFirstInRegistryOrder(RecResult.oilTempPIDs)
        /\ WorkingFirstInRegistryOrder(RecResult.chargeAirTempPIDs)

\* a boost bucket in which a working PID of lower rank stands before an unknown PID of
\* higher rank, and from which a failed PID of the registry is left out
C19_Witness ==
    /\ Recommended /\ ProfileFound
    /\ Len(RecResult.boostPIDs) = 2
    /\ RecResult.boostPIDs[1].id \in WorkingOfProfile
    /\ RecResult.boostPIDs[2].id \notin WorkingOfProfile
    /\ RecResult.boostPIDs[1].priority > RecResult.boostPIDs[2].priority
    /\ \E r \in RegistryPids : in_boost(r) /\ r.id \in FailedOfProfile

(***************************************************************************)
(* Properties of concurrent reports                                        *)
(***************************************************************************)
\* both calls have returned, and the query of each returned the same stored profile:
\* both read it before either wrote it
BothReadBeforeEitherWrote ==
    /\ \A w \in Workers : racePc[w] = "done" /\ raceSeen[w] # <<>>
    /\ \A v, w \in Workers : raceSeen[v] = raceSeen[w]

SeenProfile == raceSeen[CHOOSE w \in Workers : TRUE][1]
StoredProfile == CHOOSE p \in pidProfiles : p.vin_prefix = SeenProfile.vin_prefix

\* C20: when two reportPIDs calls for an already profiled VIN prefix both read the
\* profile before either writes it, then after both have finished sample_count has grown
\* by 1 only and working_pids holds what one of the two calls computed from the row it
\* read: the PIDs the other call reported working are lost.
C20_LostUpdate ==
    BothReadBeforeEitherWrote =>
        /\ StoredProfile.sample_count = SeenProfile.sample_count + 1
        /\ \E w \in Workers :
              SeqToSet(StoredProfile.working_pids)
                 = SeqToSet(SeenProfile.working_pids) \cup SeqToSet(raceArgs[w].working_pids)

\* both calls finished after reading the same row, the count grew by 1, and a PID one of
\* them reported working is not in working_pids
C20_Witness ==
    /\ BothReadBeforeEitherWrote
    /\ StoredProfile.sample_count = SeenProfile.sample_count + 1
    /\ \E w \in Workers : \E i \in 1..Len(raceArgs[w].working_pids) :
          raceArgs[w].working_pids[i] \notin SeqToSet(StoredProfile.working_pids)

(***************************************************************************)
(* Properties of the PID profile lists                                     *)
(***************************************************************************)
NoDuplicates(list) == \A i, j \in 1..Len(list) : i # j => list[i] # list[j]

\* C21: in every reachable state, for every PIDProfile, working_pids and
\* failed_pids have no element in common and neither contains a duplicate,
\* also after a single report that lists the same PID as both working and failed.
C21_WorkingFailedDisjoint ==
    \A p \in pidProfiles :
        /\ SeqToSet(p.working_pids) \cap SeqToSet(p.failed_pids) = {}
        /\ NoDuplicates(p.working_pids)
        /\ NoDuplicates(p.failed_pids)

\* the report that has just returned created or updated the profile of a prefix
ReportAccepted == reports' = reports + 1 /\ reportRes' # <<>> /\ "success" \in DOMAIN reportRes'[1]

\* the fact rows the step added, and the PIDs they name
AddedFacts == BagToSet(discoveredPids' (-) discoveredPids)
ReportedWorking == {f.pid_id : f \in {g \in AddedFacts : g.success}}
ReportedFailed == {f.pid_id : f \in {g \in AddedFacts : ~g.success}}

ProfilesOf(table, prefix) == {p \in table : p.vin_prefix = prefix}

\* C22: the first reportPIDs call for a VIN prefix that has no profile creates
\* one with working_pids equal to the set of reported working PIDs, failed_pids
\* equal to the reported failed PIDs minus the working ones, sample_count = 1
\* and confidence = 0.5 (50 hundredths).
C22_FirstReportCreates ==
    [][(ReportAccepted /\ ProfilesOf(pidProfiles, reportRes'[1].vinPrefix) = {}) =>
          \E p \in pidProfiles' :
              /\ pidProfiles' = pidProfiles \cup {p}
              /\ p.vin_prefix = reportRes'[1].vinPrefix
              /\ SeqToSet(p.working_pids) = ReportedWorking
              /\ NoDuplicates(p.working_pids)
              /\ SeqToSet(p.failed_pids) = ReportedFailed \ ReportedWorking
              /\ NoDuplicates(p.failed_pids)
              /\ p.sample_count = 1
              /\ p.confidence = 50]_vars

\* a first report naming one PID as working and as failed has made a profile
C22_Witness ==
    /\ reports = 1
    /\ reportRes # <<>>
    /\ "success" \in DOMAIN reportRes[1]
    /\ reportRes[1].workingCount = 1
    /\ reportRes[1].failedCount = 1
    /\ \E p \in pidProfiles : \E fw, ff \in Facts :
          /\ p.sample_count = 1
          /\ Len(p.working_pids) = 1
          /\ p.failed_pids = <<>>
          /\ fw.success /\ ~ff.success /\ fw.pid_id = ff.pid_id

(***************************************************************************)
(* Properties of sample_count and confidence over a run of reports         *)
(***************************************************************************)
SamplePrefix == get_vin_prefix(SampleVin)

\* C23: when reportPIDs calls for a VIN prefix run one after another, each
\* completed call raises the profile's sample_count by exactly 1 (the first
\* call sets it to 1), so after n calls sample_count = n; no operation lowers
\* sample_count or deletes the profile.
C23_SampleCountCountsCalls ==
    /\ [](reports >= 1 =>
            \E p \in pidProfiles :
                ProfilesOf(pidProfiles, SamplePrefix) = {p} /\ p.sample_count = reports)
    /\ [][/\ \A p \in pidProfiles : \E q \in pidProfiles' :
                q.vin_prefix = p.vin_prefix /\ q.sample_count >= p.sample_count
          /\ ReportAccepted =>
                \E q \in pidProfiles' :
                    /\ q.vin_prefix = reportRes'[1].vinPrefix
                    /\ \/ ProfilesOf(pidProfiles, q.vin_prefix) = {} /\ q.sample_count = 1
                       \/ \E p \in ProfilesOf(pidProfiles, q.vin_prefix) :
                              q.sample_count = p.sample_count + 1]_vars

\* the profile has counted as many reports as the run allows
C23_Witness ==
    /\ reports = MaxSamples
    /\ \E p \in pidProfiles : p.vin_prefix = SamplePrefix /\ p.sample_count = MaxSamples

\* C24: over any sequence of reportPIDs calls for one VIN prefix, the profile's
\* confidence never decreases from one call to the next, whatever PIDs the
\* calls report (contradictory reports included), and it never exceeds 0.95
\* (95 hundredths).
C24_ConfidenceNeverDecreases ==
    /\ [](\A p \in pidProfiles : p.confidence <= 95)
    /\ [][\A p \in pidProfiles : \A q \in pidProfiles' :
              q.vin_prefix = p.vin_prefix => q.confidence >= p.confidence]_vars

\* the confidence has reached its cap in a run holding contradictory reports
C24_Witness ==
    /\ \E p \in pidProfiles : p.vin_prefix = SamplePrefix /\ p.confidence = 95
    /\ \E fw, ff \in Facts : fw.pid_id = ff.pid_id /\ fw.success /\ ~ff.success

(***************************************************************************)
(* Properties of the convenience fields of a profile                       *)
(***************************************************************************)
KwTransTemp == <<"t","r","a","n","s","_","t","e","m","p">>

\* the convenience fields and the name each is matched by
ConvenienceFields ==
    {<<"boost_pid", KwBoost>>, <<"oil_temp_pid", KwOilTemp>>,
     <<"charge_air_temp_pid", KwChargeAir>>, <<"trans_temp_pid", KwTransTemp>>}

Matching(pids, kw) == {pid \in pids : Contains(Lower(pid), kw)}

\* the field is unset in the profile of the prefix, or the prefix has no profile
FieldUnset(table, prefix, field) == \A p \in ProfilesOf(table, prefix) : p[field] = NoText

\* an accepted report that names a working PID matching an unset field sets it
FieldsSetByReport(fields) ==
    ReportAccepted =>
        \A fk \in fields :
            (/\ Matching(ReportedWorking, fk[2]) # {}
             /\ FieldUnset(pidProfiles, reportRes'[1].vinPrefix, fk[1])) =>
                \A q \in ProfilesOf(pidProfiles', reportRes'[1].vinPrefix) :
                    q[fk[1]] \in Matching(ReportedWorking, fk[2])

\* C25: for each of the four convenience fields (boost, oil-temp,
\* charge-air-temp, trans-temp): when a report's working list contains a PID
\* whose identifier contains that field's name and the profile's field is not
\* yet set, the field is set to such a PID by that report, both when the
\* profile is created and when it is updated.
C25_MatchingFieldSet == [][FieldsSetByReport(ConvenienceFields)]_vars

\* the convenience fields _update_pid_profile assigns
AssignedFields == {"boost_pid", "oil_temp_pid", "charge_air_temp_pid"}

\* C26: a convenience field of a PIDProfile is write-once: once boost_pid,
\* oil_temp_pid or charge_air_temp_pid holds a value, no later reportPIDs call
\* for that prefix changes or clears it, even when the later call reports a
\* different matching PID as working or reports the stored PID as failed.
C26_FieldsWriteOnce ==
    [][\A p \in pidProfiles : \A q \in ProfilesOf(pidProfiles', p.vin_prefix) :
          \A field \in AssignedFields : p[field] # NoText => q[field] = p[field]]_vars

\* a report named the stored charge-air PID as failed and another charge-air
\* PID as working, and the field holds what it held
C26_Witness ==
    /\ reports = 1
    /\ \E p \in pidProfiles : \E fw, ff \in Facts :
          /\ p.charge_air_temp_pid # NoText
          /\ p.boost_pid # NoText
          /\ p.oil_temp_pid # NoText
          /\ p.sample_count = 2
          /\ ff.pid_id = p.charge_air_temp_pid /\ ~ff.success
          /\ fw.pid_id # p.charge_air_temp_pid /\ fw.success
          /\ Contains(Lower(fw.pid_id), KwChargeAir)

(***************************************************************************)
(* Properties of the coding-bit positions                                  *)
(***************************************************************************)
PositionInRange(r) == r.byte_index >= 0 /\ r.bit_index >= 0 /\ r.bit_index <= 7

\* C27: in every state reachable through the provided write operations (the
\* administrative seeds), every coding-bit registry row has byte_index >= 0 and
\* 0 <= bit_index <= 7, so decode never shifts by more than 7 and never indexes
\* a byte with a negative index.  The second conjunct goes through the whole
\* seed list, of which a seed request of the model walks the first entries.
C27_SeededPositionsInRange ==
    /\ \A r \in bitRows : PositionInRange(r)
    /\ \A i \in 1..Len(VagCodingBits) : PositionInRange(new_bit(<<"seed", i>>, VagCodingBits[i]))

\* a seed request that found no coding bits has inserted its rows
C27_Witness ==
    \E p \in SeedProcs :
        /\ seedStart[p].bits = 0
        /\ seedPc[p] = "done"
        /\ seedOutcome[p] = "ok"
        /\ Cardinality(bitRows) = Len(coding_bits)
        /\ \E r \in bitRows : r.byte_index = 0 /\ r.bit_index = 1

(***************************************************************************)
(* Properties of the bit counts of a decode                                *)
(***************************************************************************)
\* C28: for every decode call, unknownBitCount is >= 0 and len(knownBits) <=
\* totalBits, including when the raw byte string is shorter than the highest
\* byte_index defined for the module (for example a 1-byte value for the seeded
\* VAG module 17).
C28_UnknownBitCountNotNegative ==
    (DecodeReturned /\ WellFormedHex(ReqRaw)) =>
        /\ DecodeResult.unknownBitCount >= 0
        /\ Len(DecodeResult.knownBits) <= DecodeResult.totalBits

(***************************************************************************)
(* Properties of the failed PIDs in a recommendation                       *)
(***************************************************************************)
BucketIds ==
    IdsOf(RecResult.boostPIDs) \cup IdsOf(RecResult.oilTempPIDs)
        \cup IdsOf(RecResult.chargeAirTempPIDs)

CallEnded(w) == racePc[w] \in {"done", "failed"}

\* the fact rows the call of worker w is to insert
FactsOfCall(w) ==
    LET a == raceArgs[w]
    IN  fact_rows(a.vin, get_vin_prefix(a.vin), a.manufacturer, a.working_pids, TRUE)
        (+) fact_rows(a.vin, get_vin_prefix(a.vin), a.manufacturer, a.failed_pids, FALSE)

\* C30: a reportPIDs call whose VIN has fewer than 8 characters returns an
\* error value and changes nothing: no fact row is inserted and no profile is
\* created or modified; a call with a VIN of 8 or more characters always
\* inserts its fact rows and creates or updates the profile.
C30_ShortVinRejectedElseStored ==
    /\ [](\A w \in Workers :
            CallEnded(w) =>
                IF Len(raceArgs[w].vin) < 8
                THEN raceRes[w] = <<[error |-> "Invalid VIN"]>>
                ELSE /\ FactsOfCall(w) \sqsubseteq discoveredPids
                     /\ raceRes[w] # <<>>
                     /\ "success" \in DOMAIN raceRes[w][1]
                     /\ ProfilesOf(pidProfiles, get_vin_prefix(raceArgs[w].vin)) # {})
    /\ [][\A w \in Workers :
            (racePc'[w] # racePc[w] /\ Len(raceArgs'[w].vin) < 8) =>
                UNCHANGED <<pidProfiles, discoveredPids>>]_vars

====
